---- MODULE Spec2Model ----
(***************************************************************************)
(* A model of the authoritative UNO game engine of the repository: the    *)
(* card/deck model (src/server/game/Card.js, which also holds Deck), the   *)
(* rule engine (src/server/game/GameRules.js), the helpers                 *)
(* (src/unnamed/part_005) and the room/session manager GameManager         *)
(* (src/server/game/Player.js, from line 323 on).                          *)
(*                                                                         *)
(* Objects of the program are modelled as follows.                         *)
(*  - A Card object is a number: CardBase(r) + k is the k-th card that     *)
(*    Card.createDeck builds for a deck of room id r; CardOf gives its     *)
(*    color and value.  Cards of decks of different room ids are distinct  *)
(*    numbers, as the random card ids of the code are.                     *)
(*  - Player objects live in `heap`, indexed by an object identity; the    *)
(*    room's player list, room.host, gameState.winner and the routing      *)
(*    table GameManager.players all hold identities, so the aliasing of    *)
(*    the code (one Player object reached from several places) is kept.    *)
(*  - GameManager.rooms is `rooms`, GameManager.players is `players`.      *)
(*  - gameState.players is an alias of room.players (Player.js:572) and    *)
(*    is read only while a game is on, so the model reads room.players.    *)
(*  - Date.now() is `now`, in milliseconds.                                *)
(* Every manager operation is one action; a call that returns a failure    *)
(* without changing anything is a stuttering step of that action.          *)
(***************************************************************************)
EXTENDS Integers, Sequences, FiniteSets, TLC

\* the state of the GameManager: its rooms, its routing table, its Player
\* objects and the clock
VARIABLES rooms, players, heap, now
\* the call of a function of the rules under way, when one is studied by
\* itself: its arguments and what has been returned
VARIABLE call

vars == <<rooms, players, heap, now>>

allVars == <<rooms, players, heap, now, call>>

(***************************************************************************)
(* Bounds of the model and the small sets the inputs are drawn from.       *)
(***************************************************************************)
\* identities available for Player objects that are alive at the same time
MaxPlayerObjs == 3
\* Player objects alive at the same time while rooms are being set up
MaxLobbyObjs == 2
\* a game is explored up to this turnNumber
MaxTurn == 8
\* while rooms are being set up, a game is explored up to this turnNumber
MaxLobbyTurn == 2
\* the clock is advanced at most this many times
MaxTicks == 1
\* the late game starts after this many drawCard calls
DrawnAtStart == 90
\* the late game is explored for this many turns
MaxDrawTurn == 7
\* a game started from the lobby is explored up to this turnNumber
MaxStartTurn == 2
\* a game with connections lost and restored is explored up to this turnNumber
MaxPauseTurn == 3
\* a game the sweep runs beside is explored up to this turnNumber
MaxSweepTurn == 3
\* the hands given to validateWildDraw4Challenge have up to this many cards
MaxChallengeHand == 2

RoomIds == {"AAAAAA", "BBBBBB"}
Sockets == {"s1", "s2", "s3", "s4"}
\* the connections that take part while rooms are being set up
LobbySockets == {"s1", "s2"}
\* the connections of the users seated in a game, and s4, the one the user
\* of s2 comes back on after the connection was lost
GameSockets == {"s1", "s2", "s3", "s4"}
\* the connections that leave a game, the ones that are lost, and the
\* (old, new) pairs of the reconnections
LeaveSockets == {"s2", "s3"}
DropSockets == {"s2", "s4"}
ReconnectPairs == {<<"s2", "s4">>, <<"s4", "s2">>}
\* the connections lost, and the (old, new) pairs of the reconnections, in
\* the game of three players with connections lost and restored
PauseDropSockets == {"s1", "s2", "s3"}
PauseReconnectPairs == {<<"s1", "s4">>, <<"s4", "s1">>, <<"s2", "s4">>, <<"s4", "s2">>}
\* the connections that ask to join in the lobby of one room: s1 (Ann, who
\* created the room), s2 (Bob) and s4 (ANN)
JoinSockets == {"s1", "s2", "s4"}
\* card indices a client sends: a negative one, and the first two slots
CardIndexChoices == {-1, 0, 1}
\* chosenColor values a client sends: none (null), a valid one, an invalid one
ColorChoices == {"null", "blue", "purple"}

\* the name the user behind a connection types in
NameOf(s) == CASE s = "s1" -> "Ann" [] s = "s2" -> "Bob" [] s = "s3" -> "Cy"
               [] OTHER -> "ANN"

\* String.prototype.toLowerCase on the names in use
toLowerCase(name) == CASE name = "Ann" -> "ann" [] name = "ANN" -> "ann"
                       [] name = "Bob" -> "bob" [] name = "Cy" -> "cy"
                       [] OTHER -> name

(***************************************************************************)
(* utils/constants.js                                                      *)
(***************************************************************************)
MIN_PLAYERS == 2
MAX_PLAYERS == 4
CARDS_PER_PLAYER == 7
UNO_PENALTY_CARDS == 2
CARD_COLORS == <<"red", "green", "blue", "yellow">>
WILD_CARDS == {"wild", "wild-draw4"}

ROOM_NOT_FOUND == "Room not found"
ROOM_FULL == "Room is full"
GAME_ALREADY_STARTED == "Game has already started"
NOT_YOUR_TURN == "It is not your turn"
PLAYER_NOT_FOUND == "Player not found"
GAME_NOT_STARTED == "Game has not started yet"
INSUFFICIENT_PLAYERS == "Not enough players to start game"
SERVER_ERROR == "Server error occurred"
\* the value of `error` of a call that succeeds
OK == "ok"

NoRoom == [phase |-> "none"]
NoPlayer == [status |-> "none"]
NoCard == 0
Null == 0

Range(f) == {f[x] : x \in DOMAIN f}

(***************************************************************************)
(* Card (Card.js:6-197)                                                    *)
(***************************************************************************)
Card(color, value) == [color |-> color, value |-> value]

NumberValue(i) == CASE i = 0 -> "0" [] i = 1 -> "1" [] i = 2 -> "2" [] i = 3 -> "3"
                    [] i = 4 -> "4" [] i = 5 -> "5" [] i = 6 -> "6" [] i = 7 -> "7"
                    [] i = 8 -> "8" [] OTHER -> "9"

\* the cards one pass of the forEach of createDeck pushes for `color`
ColorCards(color) ==
    <<Card(color, "0")>>
    \o [j \in 1..18 |-> Card(color, NumberValue((j + 1) \div 2))]
    \o [j \in 1..6 |-> Card(color, <<"skip", "skip", "reverse", "reverse",
                                     "draw2", "draw2">>[j])]

\* createDeck pushing a wild card where it pushes a wild-draw4
createDeckWildOnly ==
    ColorCards(CARD_COLORS[1]) \o ColorCards(CARD_COLORS[2])
    \o ColorCards(CARD_COLORS[3]) \o ColorCards(CARD_COLORS[4])
    \o [j \in 1..8 |-> Card("black", "wild")]

createDeck ==
    ColorCards(CARD_COLORS[1]) \o ColorCards(CARD_COLORS[2])
    \o ColorCards(CARD_COLORS[3]) \o ColorCards(CARD_COLORS[4])
    \o [j \in 1..8 |-> Card("black", IF j % 2 = 1 THEN "wild" ELSE "wild-draw4")]

DeckSize == Len(createDeck)

\* the cards of a deck built for room id r are CardBase(r)+1 .. CardBase(r)+DeckSize
CardBase(r) == IF r = "AAAAAA" THEN 0 ELSE DeckSize

CardOf(c) == createDeck[((c - 1) % DeckSize) + 1]
colorOf(c) == CardOf(c).color
valueOf(c) == CardOf(c).value

isWild(c) == colorOf(c) = "black" \/ valueOf(c) \in WILD_CARDS

\* Card.canPlayOn
canPlayOn(c, topCard, currentColor) ==
    IF isWild(c) THEN TRUE
    ELSE IF isWild(topCard) THEN colorOf(c) = currentColor
    ELSE colorOf(c) = colorOf(topCard) \/ valueOf(c) = valueOf(topCard)

(***************************************************************************)
(* helpers (src/unnamed/part_005)                                          *)
(***************************************************************************)
Min(a, b) == IF a < b THEN a ELSE b

Reverse(seq) == [j \in 1..Len(seq) |-> seq[Len(seq) + 1 - j]]

\* getNextPlayerIndex taking every direction for +1
getNextPlayerIndexForward(currentIndex, direction, playerCount) ==
    (currentIndex + 1 + playerCount) % playerCount

\* getNextPlayerIndex; the operands of % are never negative here, where
\* JavaScript's remainder and the mathematical one agree
getNextPlayerIndex(currentIndex, direction, playerCount) ==
    (currentIndex + direction + playerCount) % playerCount

\* findIndex: the 0-based index of p in seq, -1 when absent
findIndex(seq, p) ==
    IF \E j \in 1..Len(seq) : seq[j] = p
    THEN (CHOOSE j \in 1..Len(seq) : seq[j] = p /\ \A h \in 1..(j - 1) : seq[h] # p) - 1
    ELSE -1

(***************************************************************************)
(* shuffleArray is a Fisher-Yates shuffle driven by Math.random: any       *)
(* permutation can come out.  The model draws the permutation from a       *)
(* small family, named by `kind`:                                          *)
(*   identity  the order is kept;                                          *)
(*   stacked   the cards of StackTop come out on top of the pile (the end  *)
(*             of the array, where Deck.drawCard pops), the first of       *)
(*             StackTop topmost, the other cards keep their order;         *)
(*   wildsUnder  the wild cards come out together, under the top           *)
(*             WildDepth cards of the pile, the other cards keep their     *)
(*             order: the hands of two players are dealt from above them   *)
(*             and the card initializeGame turns up next is wild.          *)
(***************************************************************************)
ShuffleKinds == {"identity", "stacked"}
\* the shuffles drawn when a game is started from the lobby
StartShuffleKinds == {"identity", "stacked", "wildsUnder"}
\* the shuffles drawn while rooms are being set up
LobbyShuffleKinds == {"identity"}

\* positions in createDeck: red skip 20 21, red reverse 22 23, red draw2 24 25,
\* green skip 45 46, green reverse 47 48, wild 101, wild-draw4 102,
\* red 0..4 are 1..9, red 5 is 10
StackTop == << 20, 22, 23, 47, 48, 45, 46,
               24, 102, 101, 25, 1, 2, 3,
               21, 4, 5, 6, 7, 8, 9,
               10 >>

PosOf(c) == ((c - 1) % DeckSize) + 1

InStack(c) == \E j \in 1..Len(StackTop) : StackTop[j] = PosOf(c)

\* the cards of `array` that StackTop names, in StackTop's order
RECURSIVE StackOf(_, _)
StackOf(array, j) ==
    IF j > Len(StackTop) THEN <<>>
    ELSE SelectSeq(array, LAMBDA c : PosOf(c) = StackTop[j]) \o StackOf(array, j + 1)

NotInStack(c) == ~InStack(c)

NotWild(c) == ~isWild(c)

WildDepth == 2 * CARDS_PER_PLAYER

\* the index of the last card of `others` that goes under the wild cards
WildCut(others) == IF Len(others) > WildDepth THEN Len(others) - WildDepth ELSE 0

wildsUnder(others, wilds) ==
    SubSeq(others, 1, WildCut(others)) \o wilds
    \o SubSeq(others, WildCut(others) + 1, Len(others))

shuffleArray(array, kind) ==
    CASE kind = "identity" -> array
      [] kind = "wildsUnder" -> wildsUnder(SelectSeq(array, NotWild), SelectSeq(array, isWild))
      [] OTHER -> SelectSeq(array, NotInStack) \o Reverse(StackOf(array, 1))

(***************************************************************************)
(* Deck (Card.js:207-441): `cards` is the draw pile, its last element the  *)
(* top; `discardPile` has its top at the end too.                          *)
(***************************************************************************)
\* new Deck(): initializeDeck builds the cards and shuffles them
NewDeckCards(r, kind) ==
    shuffleArray([k \in 1..DeckSize |-> CardBase(r) + k], kind)

\* drawCards taking the cards from the bottom of the pile
drawCardsFromBottom(cards, count) ==
    LET m == Min(count, Len(cards))
    IN  [drawn |-> SubSeq(cards, 1, m),
         rest  |-> SubSeq(cards, m + 1, Len(cards))]

\* Deck.drawCards(count): the cards popped, in the order popped, and what is left
drawCards(cards, count) ==
    LET m == Min(count, Len(cards))
    IN  [drawn |-> [j \in 1..m |-> cards[Len(cards) + 1 - j]],
         rest  |-> SubSeq(cards, 1, Len(cards) - m)]

\* needsReshuffle without the test of the draw pile
needsReshuffleAnyPile(room) == Len(room.discardPile) > 1

needsReshuffle(room) == Len(room.cards) = 0 /\ Len(room.discardPile) > 1

\* reshuffleFromDiscard keeping the bottom card of the discard pile
reshuffleFromDiscardKeepingBottom(room, kind) ==
    IF Len(room.discardPile) <= 1 THEN room
    ELSE [room EXCEPT
            !.cards = shuffleArray(SubSeq(room.discardPile, 2, Len(room.discardPile)), kind),
            !.discardPile = <<room.discardPile[1]>>]

reshuffleFromDiscard(room, kind) ==
    IF Len(room.discardPile) <= 1 THEN room
    ELSE [room EXCEPT
            !.cards = shuffleArray(SubSeq(room.discardPile, 1, Len(room.discardPile) - 1), kind),
            !.discardPile = <<room.discardPile[Len(room.discardPile)]>>]

(***************************************************************************)
(* GameRules (GameRules.js)                                                *)
(***************************************************************************)
\* canPlayCard comparing the color with that of a wild top card instead of
\* the current color
canPlayCardByTopColor(cardToPlay, topCard, currentColor) ==
    IF cardToPlay = NoCard \/ topCard = NoCard THEN FALSE
    ELSE IF isWild(cardToPlay) THEN TRUE
    ELSE colorOf(cardToPlay) = colorOf(topCard) \/ valueOf(cardToPlay) = valueOf(topCard)

canPlayCard(cardToPlay, topCard, currentColor) ==
    IF cardToPlay = NoCard \/ topCard = NoCard THEN FALSE
    ELSE IF isWild(cardToPlay) THEN TRUE
    ELSE IF isWild(topCard) THEN colorOf(cardToPlay) = currentColor
    ELSE colorOf(cardToPlay) = colorOf(topCard) \/ valueOf(cardToPlay) = valueOf(topCard)

\* gameState.chosenColor || 'red'
ColorOrRed(chosenColor) == IF chosenColor = "null" THEN "red" ELSE chosenColor

\* the action object every branch of executeCardAction starts from
NoAction ==
    [type |-> "none", cardsToDraw |-> 0, skipNextPlayer |-> FALSE,
     reverseDirection |-> FALSE, colorChange |-> "null", requiresChallenge |-> FALSE]

\* the switch on card.value of executeCardAction
switchCardValue(v, gameState) ==
    CASE v = "skip" -> [NoAction EXCEPT !.type = "skip", !.skipNextPlayer = TRUE]
      [] v = "reverse" -> [NoAction EXCEPT !.type = "reverse", !.reverseDirection = TRUE]
      [] v = "draw2" -> [NoAction EXCEPT !.type = "draw", !.cardsToDraw = 2]
      [] v = "wild" -> [NoAction EXCEPT !.type = "color_change",
                                        !.colorChange = ColorOrRed(gameState.chosenColor)]
      [] v = "wild-draw4" -> [NoAction EXCEPT !.type = "draw", !.cardsToDraw = 4,
                                              !.requiresChallenge = TRUE,
                                              !.colorChange = ColorOrRed(gameState.chosenColor)]
      [] OTHER -> NoAction

executeCardAction(card, gameState) == switchCardValue(valueOf(card), gameState)

\* calculateNextPlayer without the second step of a skip
calculateNextPlayerOnce(currentPlayerIndex, direction, playerCount, skipNext) ==
    getNextPlayerIndex(currentPlayerIndex, direction, playerCount)

calculateNextPlayer(currentPlayerIndex, direction, playerCount, skipNext) ==
    IF skipNext
    THEN getNextPlayerIndex(getNextPlayerIndex(currentPlayerIndex, direction, playerCount),
                            direction, playerCount)
    ELSE getNextPlayerIndex(currentPlayerIndex, direction, playerCount)

\* applyCardAction without the rule of the 2-player reverse
applyCardActionPlainReverse(card, gameState, action0, cardIsWild, cardColor) ==
    [newState |->
        [gameState EXCEPT
            !.direction = IF action0.reverseDirection THEN @ * (-1) ELSE @,
            !.currentColor = IF action0.colorChange # "null" THEN action0.colorChange
                             ELSE IF ~cardIsWild THEN cardColor ELSE @,
            !.topCard = card],
     action |-> action0]

\* the part of handleSpecialCards that follows the call of executeCardAction,
\* action0 being what that call returned: the new state and the action (with
\* skipNextPlayer as the 2-player reverse sets it)
applyCardAction(card, gameState, action0, cardIsWild, cardColor) ==
    [newState |->
        [gameState EXCEPT
            !.direction = IF action0.reverseDirection THEN @ * (-1) ELSE @,
            !.currentColor = IF action0.colorChange # "null" THEN action0.colorChange
                             ELSE IF ~cardIsWild THEN cardColor ELSE @,
            !.topCard = card],
     action |-> IF action0.reverseDirection /\ Len(gameState.players) = 2
                THEN [action0 EXCEPT !.skipNextPlayer = TRUE] ELSE action0]

handleSpecialCards(card, gameState) ==
    applyCardAction(card, gameState, executeCardAction(card, gameState),
                    isWild(card), colorOf(card))

\* validateWildDraw4Challenge without the wild cards of the hand counting
validateWildDraw4ChallengeNoWild(playerHand, topCard, currentColor) ==
    \E j \in 1..Len(playerHand) :
        \/ colorOf(playerHand[j]) = currentColor
        \/ valueOf(playerHand[j]) = valueOf(topCard)

\* validateWildDraw4Challenge: playerHand.some(...)
validateWildDraw4Challenge(playerHand, topCard, currentColor) ==
    \E j \in 1..Len(playerHand) :
        IF isWild(playerHand[j]) THEN TRUE
        ELSE \/ colorOf(playerHand[j]) = currentColor
             \/ valueOf(playerHand[j]) = valueOf(topCard)

\* checkWinCondition finding no winner, as a test for a hand shorter than
\* empty would
checkWinConditionNever(playerSeq, hp) == Null

checkWinCondition(playerSeq, hp) ==
    IF \E j \in 1..Len(playerSeq) : Len(hp[playerSeq[j]].hand) = 0
    THEN playerSeq[CHOOSE j \in 1..Len(playerSeq) :
                      /\ Len(hp[playerSeq[j]].hand) = 0
                      /\ \A h \in 1..(j - 1) : Len(hp[playerSeq[h]].hand) # 0]
    ELSE Null

\* checkUnoValidity: which of its branches a call by a player in state `pl` takes
checkUnoValidity(pl) ==
    IF Len(pl.hand) = 1 /\ ~pl.unoCalled THEN [isValid |-> TRUE, shouldPenalize |-> FALSE]
    ELSE IF Len(pl.hand) = 1 /\ pl.unoCalled THEN [isValid |-> FALSE, shouldPenalize |-> FALSE]
    ELSE IF Len(pl.hand) > 1 THEN [isValid |-> FALSE, shouldPenalize |-> TRUE]
    ELSE [isValid |-> FALSE, shouldPenalize |-> FALSE]

\* validateMove without its check of the turn
validateMoveAnySeat(gameState, hp, p, cardIndex, chosenColor) ==
    IF gameState.phase # "playing" THEN "Game not in playing phase"
    ELSE IF ~(cardIndex >= 0 /\ cardIndex < Len(hp[p].hand)) THEN "Invalid card index"
    ELSE IF ~canPlayCard(hp[p].hand[cardIndex + 1], gameState.topCard, gameState.currentColor)
         THEN "Cannot play this card"
    ELSE IF isWild(hp[p].hand[cardIndex + 1]) /\ chosenColor = "null"
         THEN "Must choose a color for wild card"
    ELSE IF chosenColor # "null" /\ chosenColor \notin Range(CARD_COLORS)
         THEN "Invalid color choice"
    ELSE OK

\* validateMove without its two checks of the chosen color
validateMoveAnyColor(gameState, hp, p, cardIndex, chosenColor) ==
    IF gameState.currentPlayerIndex # findIndex(gameState.players, p) THEN "Not your turn"
    ELSE IF gameState.phase # "playing" THEN "Game not in playing phase"
    ELSE IF ~(cardIndex >= 0 /\ cardIndex < Len(hp[p].hand)) THEN "Invalid card index"
    ELSE IF ~canPlayCard(hp[p].hand[cardIndex + 1], gameState.topCard, gameState.currentColor)
         THEN "Cannot play this card"
    ELSE OK

\* validateMove: the error of the first check that fails, OK when none does
validateMove(gameState, hp, p, cardIndex, chosenColor) ==
    IF gameState.currentPlayerIndex # findIndex(gameState.players, p) THEN "Not your turn"
    ELSE IF gameState.phase # "playing" THEN "Game not in playing phase"
    ELSE IF ~(cardIndex >= 0 /\ cardIndex < Len(hp[p].hand)) THEN "Invalid card index"
    ELSE IF ~canPlayCard(hp[p].hand[cardIndex + 1], gameState.topCard, gameState.currentColor)
         THEN "Cannot play this card"
    ELSE IF isWild(hp[p].hand[cardIndex + 1]) /\ chosenColor = "null"
         THEN "Must choose a color for wild card"
    ELSE IF chosenColor # "null" /\ chosenColor \notin Range(CARD_COLORS)
         THEN "Invalid color choice"
    ELSE OK

RemoveAt(seq, j) == SubSeq(seq, 1, j - 1) \o SubSeq(seq, j + 1, Len(seq))

\* advanceAfterPlay without the increment of turnNumber
advanceAfterPlaySameTurn(p, hp1, special) ==
    [room |-> [special.newState EXCEPT
                 !.currentPlayerIndex =
                     calculateNextPlayer(findIndex(special.newState.players, p),
                                         special.newState.direction,
                                         Len(special.newState.players),
                                         special.action.skipNextPlayer)],
     heap |-> hp1]

\* the end of handlePlayCard, special being what handleSpecialCards returned
\* and hp1 the heap after player.removeCard
advanceAfterPlay(p, hp1, special) ==
    [room |-> [special.newState EXCEPT
                 !.currentPlayerIndex =
                     calculateNextPlayer(findIndex(special.newState.players, p),
                                         special.newState.direction,
                                         Len(special.newState.players),
                                         special.action.skipNextPlayer),
                 !.turnNumber = @ + 1],
     heap |-> hp1]

\* handlePlayCard giving UNO_PENALTY_CARDS cards to a player who plays the
\* last card of the hand without having called UNO
handlePlayCardWithUnoPenalty(room, hp, p, cardIndex, chosenColor) ==
    IF Len(hp[p].hand) = 1 /\ ~hp[p].unoCalled
    THEN advanceAfterPlay(p, [hp EXCEPT ![p].hand =
                                 drawCards(room.cards, UNO_PENALTY_CARDS).drawn],
                          handleSpecialCards(hp[p].hand[cardIndex + 1],
                                             [room EXCEPT
                                                !.discardPile =
                                                    Append(@, hp[p].hand[cardIndex + 1]),
                                                !.cards =
                                                    drawCards(@, UNO_PENALTY_CARDS).rest]))
    ELSE advanceAfterPlay(p, [hp EXCEPT ![p].hand = RemoveAt(@, cardIndex + 1)],
                          handleSpecialCards(hp[p].hand[cardIndex + 1],
                                             [room EXCEPT !.discardPile =
                                                 Append(@, hp[p].hand[cardIndex + 1])]))

\* handlePlayCard: the room (its gameState and deck) and the heap after the
\* card at cardIndex of player p has been played; chosenColor is not read
handlePlayCard(room, hp, p, cardIndex, chosenColor) ==
    advanceAfterPlay(p, [hp EXCEPT ![p].hand = RemoveAt(@, cardIndex + 1)],
                     handleSpecialCards(hp[p].hand[cardIndex + 1],
                                        [room EXCEPT !.discardPile =
                                            Append(@, hp[p].hand[cardIndex + 1])]))

(***************************************************************************)
(* Player (Player.js:7-319) and the state of GameManager                   *)
(***************************************************************************)
PlayerIds == 1..MaxPlayerObjs

NewPlayer(socketId, name, isHost) ==
    [socketId |-> socketId, name |-> name, isHost |-> isHost, status |-> "connected",
     hand |-> <<>>, unoCalled |-> FALSE]

\* the settings a client sends with createRoom: without maxPlayers, or with one
SettingsChoices == {[has |-> FALSE, maxPlayers |-> 0], [has |-> TRUE, maxPlayers |-> 2]}
\* the settings sent in the lobby of one room: also a maxPlayers out of range
LobbySettingsChoices == SettingsChoices \cup {[has |-> TRUE, maxPlayers |-> 5]}

\* settings.maxPlayers || MAX_PLAYERS, then overwritten by ...settings
settingsMaxPlayers(settings) ==
    IF settings.has THEN settings.maxPlayers ELSE MAX_PLAYERS

inactiveThreshold == 30 * 60 * 1000
\* the time that passes in one step of the clock
TickMs == inactiveThreshold + 1

Live(r) == rooms[r] # NoRoom

\* the Player objects something still refers to
Referenced(rms, pls) ==
    {pls[s] : s \in Sockets} \cup
    UNION {Range(rms[r].players) \cup {rms[r].host, rms[r].winner} :
             r \in {x \in RoomIds : rms[x] # NoRoom}}

\* objects nothing refers to any more are garbage: their identity is free again
Collect(hp, rms, pls) ==
    [p \in PlayerIds |-> IF p \in Referenced(rms, pls) THEN hp[p] ELSE NoPlayer]

FreeIds(hp) == {p \in PlayerIds : hp[p] = NoPlayer}
NewId(hp) == CHOOSE p \in FreeIds(hp) : \A q \in FreeIds(hp) : p <= q

\* the room whose player list holds object p (an object is put in one list only)
RoomsOf(p) == {r \in RoomIds : Live(r) /\ p \in Range(rooms[r].players)}

\* the manager right after construction
NewManager ==
    [rooms |-> [r \in RoomIds |-> NoRoom], players |-> [s \in Sockets |-> Null],
     heap |-> [p \in PlayerIds |-> NoPlayer], now |-> 0]

\* no call of the playability check is under way
NoCall ==
    [cardToPlay |-> NoCard, topCard |-> NoCard, currentColor |-> "null",
     rulesReturned |-> FALSE, rulesResult |-> FALSE,
     cardReturned |-> FALSE, cardResult |-> FALSE]

Init ==
    /\ rooms = NewManager.rooms
    /\ players = NewManager.players
    /\ heap = NewManager.heap
    /\ now = NewManager.now
    /\ call = NoCall

(***************************************************************************)
(* GameManager.createRoom: roomId is what generateRoomId returned (it is   *)
(* random and not checked against the rooms in use), kind the shuffle of   *)
(* the new Deck.  createRoom has no failure other than an exception.       *)
(* createRoomResult is the manager after the call on manager m.            *)
(***************************************************************************)
createRoomResult(m, hostSocketId, settings, roomId, kind) ==
    LET host == NewId(m.heap)
        room == [id |-> roomId, host |-> host, players |-> <<host>>,
                 maxPlayers |-> settingsMaxPlayers(settings),
                 phase |-> "waiting", currentPlayerIndex |-> 0, direction |-> 1,
                 currentColor |-> "null", topCard |-> NoCard, chosenColor |-> "null",
                 turnNumber |-> 0, cards |-> NewDeckCards(roomId, kind),
                 discardPile |-> <<>>, winner |-> Null, lastActivity |-> m.now]
        rooms1 == [m.rooms EXCEPT ![roomId] = room]
        players1 == [m.players EXCEPT ![hostSocketId] = host]
    IN  [rooms |-> rooms1, players |-> players1,
         heap |-> Collect([m.heap EXCEPT ![host] = NewPlayer(hostSocketId,
                                                     NameOf(hostSocketId), TRUE)],
                          rooms1, players1),
         now |-> m.now]

CreateRoom(hostSocketId, settings, roomId, kind) ==
    /\ FreeIds(heap) # {}
    /\ LET m == createRoomResult([rooms |-> rooms, players |-> players, heap |-> heap,
                                  now |-> now], hostSocketId, settings, roomId, kind)
       IN  /\ rooms' = m.rooms
           /\ players' = m.players
           /\ heap' = m.heap
    /\ UNCHANGED now

(***************************************************************************)
(* GameManager.joinRoom; joinRoomResult is the manager after a call that   *)
(* succeeds on manager m.                                                  *)
(***************************************************************************)
\* the checks of joinRoom with the names compared as they are typed
joinRoomErrorInExactName(m, roomId, playerSocketId) ==
    IF m.rooms[roomId] = NoRoom THEN ROOM_NOT_FOUND
    ELSE IF Len(m.rooms[roomId].players) >= m.rooms[roomId].maxPlayers THEN ROOM_FULL
    ELSE IF m.rooms[roomId].phase # "waiting" THEN GAME_ALREADY_STARTED
    ELSE IF \E j \in 1..Len(m.rooms[roomId].players) :
              m.heap[m.rooms[roomId].players[j]].name = NameOf(playerSocketId)
         THEN "Player name already taken"
    ELSE OK

joinRoomErrorIn(m, roomId, playerSocketId) ==
    IF m.rooms[roomId] = NoRoom THEN ROOM_NOT_FOUND
    ELSE IF Len(m.rooms[roomId].players) >= m.rooms[roomId].maxPlayers THEN ROOM_FULL
    ELSE IF m.rooms[roomId].phase # "waiting" THEN GAME_ALREADY_STARTED
    ELSE IF \E j \in 1..Len(m.rooms[roomId].players) :
              toLowerCase(m.heap[m.rooms[roomId].players[j]].name)
                = toLowerCase(NameOf(playerSocketId))
         THEN "Player name already taken"
    ELSE OK

joinRoomError(roomId, playerSocketId) ==
    joinRoomErrorIn([rooms |-> rooms, players |-> players, heap |-> heap, now |-> now],
                    roomId, playerSocketId)

joinRoomResult(m, roomId, playerSocketId) ==
    LET player == NewId(m.heap)
        rooms1 == [m.rooms EXCEPT ![roomId].players = Append(@, player),
                                  ![roomId].lastActivity = m.now]
        players1 == [m.players EXCEPT ![playerSocketId] = player]
    IN  [rooms |-> rooms1, players |-> players1,
         heap |-> Collect([m.heap EXCEPT ![player] = NewPlayer(playerSocketId,
                                                       NameOf(playerSocketId), FALSE)],
                          rooms1, players1),
         now |-> m.now]

JoinRoom(roomId, playerSocketId) ==
    IF joinRoomError(roomId, playerSocketId) # OK THEN UNCHANGED vars
    ELSE /\ FreeIds(heap) # {}
         /\ LET m == joinRoomResult([rooms |-> rooms, players |-> players,
                                     heap |-> heap, now |-> now], roomId, playerSocketId)
            IN  /\ rooms' = m.rooms
                /\ players' = m.players
                /\ heap' = m.heap
         /\ UNCHANGED now

(***************************************************************************)
(* GameManager.startGame and initializeGame                                *)
(***************************************************************************)
\* Deck.dealInitialCards: players j.. of playerSeq each pop cardsPerPlayer cards
RECURSIVE dealInitialCards(_, _, _, _, _)
dealInitialCards(playerSeq, j, cards, hp, cardsPerPlayer) ==
    IF j > Len(playerSeq) THEN [cards |-> cards, heap |-> hp]
    ELSE LET d == drawCards(cards, cardsPerPlayer)
         IN  dealInitialCards(playerSeq, j + 1, d.rest,
                              [hp EXCEPT ![playerSeq[j]].hand = @ \o d.drawn],
                              cardsPerPlayer)

\* the first card turned up taken as it comes, wild or not
FirstCardAsDrawn(cards, discardPile) ==
    [cards |-> SubSeq(cards, 1, Len(cards) - 1),
     discardPile |-> Append(discardPile, cards[Len(cards)]),
     firstCard |-> cards[Len(cards)]]

\* the loop of initializeGame that turns up the first card: wild cards drawn
\* go to the discard pile and the next card is drawn
RECURSIVE FirstCard(_, _)
FirstCard(cards, discardPile) ==
    LET firstCard == cards[Len(cards)]
        rest == SubSeq(cards, 1, Len(cards) - 1)
    IN  IF isWild(firstCard) THEN FirstCard(rest, Append(discardPile, firstCard))
        ELSE [cards |-> rest, discardPile |-> Append(discardPile, firstCard),
              firstCard |-> firstCard]

initializeGame(room, hp, kind) ==
    LET hp0 == [p \in PlayerIds |->
                  IF p \in Range(room.players)
                  THEN [hp[p] EXCEPT !.hand = <<>>, !.unoCalled = FALSE] ELSE hp[p]]
        deck == NewDeckCards(room.id, kind)
        dealt == dealInitialCards(room.players, 1, deck, hp0, CARDS_PER_PLAYER)
        first == FirstCard(dealt.cards, <<>>)
    IN  [room |-> [room EXCEPT !.cards = first.cards, !.discardPile = first.discardPile,
                               !.topCard = first.firstCard,
                               !.currentColor = colorOf(first.firstCard),
                               !.currentPlayerIndex = 0, !.direction = 1,
                               !.turnNumber = 1, !.winner = Null,
                               !.chosenColor = "null"],
         heap |-> dealt.heap]

\* the checks of startGame without the one of the phase
startGameErrorAnyPhase(roomId, hostSocketId) ==
    IF ~Live(roomId) THEN ROOM_NOT_FOUND
    ELSE IF heap[rooms[roomId].host].socketId # hostSocketId
         THEN "Only the host can start the game"
    ELSE IF Len(rooms[roomId].players) < MIN_PLAYERS THEN INSUFFICIENT_PLAYERS
    ELSE OK

startGameError(roomId, hostSocketId) ==
    IF ~Live(roomId) THEN ROOM_NOT_FOUND
    ELSE IF heap[rooms[roomId].host].socketId # hostSocketId
         THEN "Only the host can start the game"
    ELSE IF Len(rooms[roomId].players) < MIN_PLAYERS THEN INSUFFICIENT_PLAYERS
    ELSE IF rooms[roomId].phase # "waiting" THEN GAME_ALREADY_STARTED
    ELSE OK

\* the manager after a startGame that succeeds on manager m
startGameResult(m, roomId, kind) ==
    LET init == initializeGame(m.rooms[roomId], m.heap, kind)
    IN  [m EXCEPT !.rooms = [m.rooms EXCEPT ![roomId] =
                               [init.room EXCEPT !.phase = "playing",
                                                 !.lastActivity = m.now]],
                  !.heap = init.heap]

StartGame(roomId, hostSocketId, kind) ==
    IF startGameError(roomId, hostSocketId) # OK THEN UNCHANGED vars
    ELSE LET m == startGameResult([rooms |-> rooms, players |-> players, heap |-> heap,
                                   now |-> now], roomId, kind)
         IN  /\ rooms' = m.rooms
             /\ heap' = m.heap
             /\ UNCHANGED <<players, now>>

(***************************************************************************)
(* GameManager.playCard                                                    *)
(***************************************************************************)
playCardError(roomId, playerSocketId, cardIndex, chosenColor) ==
    IF ~Live(roomId) THEN ROOM_NOT_FOUND
    ELSE IF rooms[roomId].phase # "playing" THEN GAME_NOT_STARTED
    ELSE IF players[playerSocketId] = Null THEN PLAYER_NOT_FOUND
    ELSE validateMove(rooms[roomId], heap, players[playerSocketId], cardIndex, chosenColor)

\* the end of playCard recording the winner and leaving the phase as it is
playCardEndStillPlaying(roomId, played, winner) ==
    /\ rooms' = [rooms EXCEPT ![roomId] =
                   IF winner # Null
                   THEN [played.room EXCEPT !.lastActivity = now, !.winner = winner]
                   ELSE [played.room EXCEPT !.lastActivity = now]]
    /\ heap' = played.heap
    /\ UNCHANGED <<players, now>>

\* what playCard does with the result of handlePlayCard, winner being what
\* checkWinCondition returned
playCardEnd(roomId, played, winner) ==
    /\ rooms' = [rooms EXCEPT ![roomId] =
                   IF winner # Null
                   THEN [played.room EXCEPT !.lastActivity = now, !.phase = "ended",
                                            !.winner = winner]
                   ELSE [played.room EXCEPT !.lastActivity = now]]
    /\ heap' = played.heap
    /\ UNCHANGED <<players, now>>

playCardCommit(roomId, played) ==
    playCardEnd(roomId, played, checkWinCondition(played.room.players, played.heap))

PlayCard(roomId, playerSocketId, cardIndex, chosenColor) ==
    IF playCardError(roomId, playerSocketId, cardIndex, chosenColor) # OK
    THEN UNCHANGED vars
    ELSE playCardCommit(roomId,
                        handlePlayCard(rooms[roomId], heap, players[playerSocketId],
                                       cardIndex, chosenColor))

(***************************************************************************)
(* GameManager.drawCard.  The source declares `const currentPlayerIndex`   *)
(* twice in one block (Player.js:690 and 715); the second declaration      *)
(* computes the same value, and the model reads it as that.  kind is the   *)
(* shuffle a reshuffle would use.                                          *)
(***************************************************************************)
\* the checks of drawCard without the one of the phase
drawCardErrorAnyPhase(roomId, playerSocketId) ==
    IF ~Live(roomId) THEN ROOM_NOT_FOUND
    ELSE IF players[playerSocketId] = Null THEN PLAYER_NOT_FOUND
    ELSE IF findIndex(rooms[roomId].players, players[playerSocketId])
              # rooms[roomId].currentPlayerIndex THEN NOT_YOUR_TURN
    ELSE IF Len(rooms[roomId].cards) = 0 /\ ~needsReshuffle(rooms[roomId])
         THEN "No cards available to draw"
    ELSE OK

drawCardError(roomId, playerSocketId) ==
    IF ~Live(roomId) THEN ROOM_NOT_FOUND
    ELSE IF rooms[roomId].phase # "playing" THEN GAME_NOT_STARTED
    ELSE IF players[playerSocketId] = Null THEN PLAYER_NOT_FOUND
    ELSE IF findIndex(rooms[roomId].players, players[playerSocketId])
              # rooms[roomId].currentPlayerIndex THEN NOT_YOUR_TURN
    ELSE IF Len(rooms[roomId].cards) = 0 /\ ~needsReshuffle(rooms[roomId])
         THEN "No cards available to draw"
    ELSE OK

\* the manager after a drawCard that succeeds on manager m
drawCardResult(m, roomId, playerSocketId, kind) ==
    LET player == m.players[playerSocketId]
        room0 == IF needsReshuffle(m.rooms[roomId])
                 THEN reshuffleFromDiscard(m.rooms[roomId], kind) ELSE m.rooms[roomId]
        d == drawCards(room0.cards, 1)
        currentPlayerIndex == findIndex(room0.players, player)
        nextPlayerIndex == calculateNextPlayer(currentPlayerIndex, room0.direction,
                                               Len(room0.players), FALSE)
    IN  [m EXCEPT !.rooms = [m.rooms EXCEPT ![roomId] =
                               [room0 EXCEPT !.cards = d.rest,
                                             !.currentPlayerIndex = nextPlayerIndex,
                                             !.turnNumber = @ + 1,
                                             !.lastActivity = m.now]],
                  !.heap = [m.heap EXCEPT ![player].hand = @ \o d.drawn]]

DrawCard(roomId, playerSocketId, kind) ==
    IF drawCardError(roomId, playerSocketId) # OK THEN UNCHANGED vars
    ELSE LET m == drawCardResult([rooms |-> rooms, players |-> players, heap |-> heap,
                                  now |-> now], roomId, playerSocketId, kind)
         IN  /\ rooms' = m.rooms
             /\ heap' = m.heap
             /\ UNCHANGED <<players, now>>

(***************************************************************************)
(* GameManager.callUno.  Its penalty branch reads GAME_RULES, a name the   *)
(* file neither imports nor defines (Player.js:327, 786): the branch       *)
(* throws a ReferenceError before the deck is touched, and the catch       *)
(* block returns SERVER_ERROR.                                             *)
(***************************************************************************)
callUnoError(roomId, playerSocketId) ==
    IF ~Live(roomId) THEN ROOM_NOT_FOUND
    ELSE IF rooms[roomId].phase # "playing" THEN GAME_NOT_STARTED
    ELSE IF players[playerSocketId] = Null THEN PLAYER_NOT_FOUND
    ELSE IF ~checkUnoValidity(heap[players[playerSocketId]]).isValid
            /\ checkUnoValidity(heap[players[playerSocketId]]).shouldPenalize
         THEN SERVER_ERROR
    ELSE OK

CallUno(roomId, playerSocketId) ==
    IF callUnoError(roomId, playerSocketId) # OK THEN UNCHANGED vars
    ELSE LET player == players[playerSocketId]
         IN  /\ heap' = IF checkUnoValidity(heap[player]).isValid
                        THEN [heap EXCEPT ![player].unoCalled = TRUE] ELSE heap
             /\ rooms' = [rooms EXCEPT ![roomId].lastActivity = now]
             /\ UNCHANGED <<players, now>>

(***************************************************************************)
(* GameManager.leaveRoom                                                   *)
(***************************************************************************)
leaveRoomError(roomId, playerSocketId) ==
    IF ~Live(roomId) THEN ROOM_NOT_FOUND
    ELSE IF players[playerSocketId] = Null THEN PLAYER_NOT_FOUND
    ELSE OK

\* leaveRoom without the transfer of the host role
LeaveRoomKeepingHost(roomId, playerSocketId) ==
    IF leaveRoomError(roomId, playerSocketId) # OK THEN UNCHANGED vars
    ELSE LET player == players[playerSocketId]
             room == rooms[roomId]
             playerIndex == findIndex(room.players, player)
             remaining == IF playerIndex # -1 THEN RemoveAt(room.players, playerIndex + 1)
                          ELSE room.players
         IN  /\ players' = [players EXCEPT ![playerSocketId] = Null]
             /\ rooms' = [rooms EXCEPT ![roomId] =
                            IF Len(remaining) = 0 THEN NoRoom
                            ELSE [room EXCEPT !.players = remaining,
                                              !.lastActivity = now]]
             /\ heap' = Collect(heap, rooms', players')
             /\ UNCHANGED now

LeaveRoom(roomId, playerSocketId) ==
    IF leaveRoomError(roomId, playerSocketId) # OK THEN UNCHANGED vars
    ELSE LET player == players[playerSocketId]
             room == rooms[roomId]
             playerIndex == findIndex(room.players, player)
             remaining == IF playerIndex # -1 THEN RemoveAt(room.players, playerIndex + 1)
                          ELSE room.players
             transfer == heap[player].isHost /\ Len(remaining) > 0
             room1 == [room EXCEPT !.players = remaining,
                                   !.host = IF transfer THEN remaining[1] ELSE @]
             heap1 == IF transfer THEN [heap EXCEPT ![remaining[1]].isHost = TRUE]
                      ELSE heap
         IN  /\ players' = [players EXCEPT ![playerSocketId] = Null]
             /\ rooms' = [rooms EXCEPT ![roomId] =
                            IF Len(remaining) = 0 THEN NoRoom
                            ELSE [room1 EXCEPT !.lastActivity = now]]
             /\ heap' = Collect(heap1, rooms', players')
             /\ UNCHANGED now

(***************************************************************************)
(* GameManager.handleDisconnection                                         *)
(***************************************************************************)
\* handleDisconnection pausing the room whatever its phase
HandleDisconnectionPausing(socketId) ==
    IF players[socketId] = Null \/ RoomsOf(players[socketId]) = {} THEN UNCHANGED vars
    ELSE /\ heap' = [heap EXCEPT ![players[socketId]].status = "disconnected"]
         /\ rooms' = [rooms EXCEPT
                         ![CHOOSE r \in RoomsOf(players[socketId]) : TRUE] =
                             [@ EXCEPT !.lastActivity = now, !.phase = "paused"]]
         /\ UNCHANGED <<players, now>>

\* handleDisconnection emptying the hand of the player
HandleDisconnectionDroppingHand(socketId) ==
    IF players[socketId] = Null \/ RoomsOf(players[socketId]) = {} THEN UNCHANGED vars
    ELSE /\ heap' = [heap EXCEPT ![players[socketId]].status = "disconnected",
                                 ![players[socketId]].hand = <<>>]
         /\ rooms' = [rooms EXCEPT
                         ![CHOOSE r \in RoomsOf(players[socketId]) : TRUE] =
                             [@ EXCEPT !.lastActivity = now,
                                       !.phase = IF @ = "playing" THEN "paused" ELSE @]]
         /\ UNCHANGED <<players, now>>

HandleDisconnection(socketId) ==
    IF players[socketId] = Null \/ RoomsOf(players[socketId]) = {} THEN UNCHANGED vars
    ELSE LET player == players[socketId]
             roomId == CHOOSE r \in RoomsOf(player) : TRUE
         IN  /\ heap' = [heap EXCEPT ![player].status = "disconnected"]
             /\ rooms' = [rooms EXCEPT ![roomId].lastActivity = now,
                                       ![roomId].phase =
                                           IF @ = "playing" THEN "paused" ELSE @]
             /\ UNCHANGED <<players, now>>

(***************************************************************************)
(* GameManager.handleReconnection                                          *)
(***************************************************************************)
handleReconnectionError(oldSocketId, newSocketId) ==
    IF players[oldSocketId] = Null THEN "Player not found"
    ELSE IF RoomsOf(players[oldSocketId]) = {} THEN "Room not found"
    ELSE OK

\* handleReconnection resuming the game only when no player of the room is
\* left disconnected
HandleReconnectionWhenAllBack(oldSocketId, newSocketId) ==
    IF players[oldSocketId] = Null THEN UNCHANGED vars
    ELSE /\ players' = [[players EXCEPT ![oldSocketId] = Null]
                           EXCEPT ![newSocketId] = players[oldSocketId]]
         /\ rooms' = IF RoomsOf(players[oldSocketId]) = {} THEN rooms
                     ELSE [rooms EXCEPT
                             ![CHOOSE r \in RoomsOf(players[oldSocketId]) : TRUE] =
                                 [@ EXCEPT !.lastActivity = now,
                                           !.phase =
                                               IF @ = "paused"
                                                  /\ \A q \in Range(rooms[CHOOSE r \in RoomsOf(players[oldSocketId]) : TRUE].players) \ {players[oldSocketId]} :
                                                        heap[q].status = "connected"
                                               THEN "playing" ELSE @]]
         /\ heap' = Collect([heap EXCEPT ![players[oldSocketId]].socketId = newSocketId,
                                         ![players[oldSocketId]].status = "connected"],
                            rooms', players')
         /\ UNCHANGED now

HandleReconnection(oldSocketId, newSocketId) ==
    IF players[oldSocketId] = Null THEN UNCHANGED vars
    ELSE LET player == players[oldSocketId]
             heap1 == [heap EXCEPT ![player].socketId = newSocketId,
                                   ![player].status = "connected"]
         IN  /\ players' = [[players EXCEPT ![oldSocketId] = Null]
                               EXCEPT ![newSocketId] = player]
             /\ rooms' = IF RoomsOf(player) = {} THEN rooms
                         ELSE LET roomId == CHOOSE r \in RoomsOf(player) : TRUE
                              IN  [rooms EXCEPT ![roomId].lastActivity = now,
                                                ![roomId].phase =
                                                    IF @ = "paused" THEN "playing" ELSE @]
             /\ heap' = Collect(heap1, rooms', players')
             /\ UNCHANGED now

(***************************************************************************)
(* Time passing, and the sweep GameManager.cleanupInactiveRooms that the   *)
(* interval timer of startCleanupInterval runs.                            *)
(***************************************************************************)
Tick ==
    /\ now < MaxTicks * TickMs
    /\ now' = now + TickMs
    /\ UNCHANGED <<rooms, players, heap>>

\* the test of the sweep sparing the rooms whose game has been started
InactiveWaitingOnly(r) ==
    Live(r) /\ rooms[r].phase = "waiting" /\ now - rooms[r].lastActivity > inactiveThreshold

Inactive(r) == Live(r) /\ now - rooms[r].lastActivity > inactiveThreshold

CleanupInactiveRooms ==
    /\ rooms' = [r \in RoomIds |-> IF Inactive(r) THEN NoRoom ELSE rooms[r]]
    /\ heap' = Collect(heap, rooms', players)
    /\ UNCHANGED <<players, now>>

(***************************************************************************)
(* The manager as a whole, from its construction: every operation, on two  *)
(* room ids, with the games explored for their first turns.                *)
(***************************************************************************)
TurnBelow(r, bound) == Live(r) => rooms[r].turnNumber < bound

LiveObjs == PlayerIds \ FreeIds(heap)

Next ==
    \/ \E s \in LobbySockets, st \in SettingsChoices, r \in RoomIds,
          k \in LobbyShuffleKinds :
          Cardinality(LiveObjs) < MaxLobbyObjs /\ CreateRoom(s, st, r, k) /\ UNCHANGED call
    \/ \E r \in RoomIds, s \in LobbySockets :
          /\ joinRoomError(r, s) = OK => Cardinality(LiveObjs) < MaxLobbyObjs
          /\ JoinRoom(r, s)
          /\ UNCHANGED call
    \/ \E r \in RoomIds, s \in LobbySockets, k \in LobbyShuffleKinds :
          StartGame(r, s, k) /\ UNCHANGED call
    \/ \E r \in RoomIds, s \in LobbySockets, i \in CardIndexChoices, c \in ColorChoices :
          TurnBelow(r, MaxLobbyTurn) /\ PlayCard(r, s, i, c) /\ UNCHANGED call
    \/ \E r \in RoomIds, s \in LobbySockets, k \in ShuffleKinds :
          TurnBelow(r, MaxLobbyTurn) /\ DrawCard(r, s, k) /\ UNCHANGED call
    \/ \E r \in RoomIds, s \in LobbySockets : CallUno(r, s) /\ UNCHANGED call
    \/ \E r \in RoomIds, s \in LobbySockets : LeaveRoom(r, s) /\ UNCHANGED call
    \/ \E s \in LobbySockets : HandleDisconnection(s) /\ UNCHANGED call
    \/ \E old \in LobbySockets, new \in LobbySockets : HandleReconnection(old, new)
          /\ UNCHANGED call
    \/ Tick /\ UNCHANGED call
    \/ CleanupInactiveRooms /\ UNCHANGED call

Spec == Init /\ [][Next]_allVars

(***************************************************************************)
(* The games of one room: the manager starts with room AAAAAA created by   *)
(* s1 and joined by s2, or by s2 and s3, and the game operations and the   *)
(* connection events of its players follow.                                *)
(***************************************************************************)
NoSettings == [has |-> FALSE, maxPlayers |-> 0]

Lobby(n) ==
    LET m1 == createRoomResult(NewManager, "s1", NoSettings, "AAAAAA", "identity")
        m2 == joinRoomResult(m1, "AAAAAA", "s2")
        m3 == joinRoomResult(m2, "AAAAAA", "s3")
    IN  IF n = 2 THEN m2 ELSE m3

InitGame ==
    \E n \in {2, 3} :
        /\ rooms = Lobby(n).rooms
        /\ players = Lobby(n).players
        /\ heap = Lobby(n).heap
        /\ now = Lobby(n).now
        /\ call = NoCall

NextGame ==
    \/ \E s \in GameSockets, k \in ShuffleKinds : StartGame("AAAAAA", s, k) /\ UNCHANGED call
    \/ \E s \in GameSockets, i \in CardIndexChoices, c \in ColorChoices :
          TurnBelow("AAAAAA", MaxTurn) /\ PlayCard("AAAAAA", s, i, c) /\ UNCHANGED call
    \/ \E s \in GameSockets, k \in ShuffleKinds :
          TurnBelow("AAAAAA", MaxTurn) /\ DrawCard("AAAAAA", s, k) /\ UNCHANGED call
    \/ \E s \in GameSockets : CallUno("AAAAAA", s) /\ UNCHANGED call
    \/ \E s \in LeaveSockets : LeaveRoom("AAAAAA", s) /\ UNCHANGED call
    \/ \E s \in DropSockets : HandleDisconnection(s) /\ UNCHANGED call
    \/ \E pr \in ReconnectPairs : HandleReconnection(pr[1], pr[2]) /\ UNCHANGED call

SpecGame == InitGame /\ [][NextGame]_allVars

(***************************************************************************)
(* The lobby of one room id: from the construction of the manager, rooms   *)
(* of id AAAAAA are created, joined, left and started, with every shuffle  *)
(* of StartShuffleKinds, and the first turns of the game are played.       *)
(***************************************************************************)
NextLobby ==
    \/ \E st \in LobbySettingsChoices : CreateRoom("s1", st, "AAAAAA", "identity")
          /\ UNCHANGED call
    \/ \E s \in JoinSockets : JoinRoom("AAAAAA", s) /\ UNCHANGED call
    \/ \E s \in LobbySockets, k \in StartShuffleKinds : StartGame("AAAAAA", s, k)
          /\ UNCHANGED call
    \/ \E s \in LobbySockets, i \in CardIndexChoices, c \in ColorChoices :
          TurnBelow("AAAAAA", MaxStartTurn) /\ PlayCard("AAAAAA", s, i, c) /\ UNCHANGED call
    \/ \E s \in LobbySockets, k \in ShuffleKinds :
          TurnBelow("AAAAAA", MaxStartTurn) /\ DrawCard("AAAAAA", s, k) /\ UNCHANGED call
    \/ \E s \in LobbySockets : LeaveRoom("AAAAAA", s) /\ UNCHANGED call
    \/ HandleDisconnection("s2") /\ UNCHANGED call

SpecLobby == Init /\ [][NextLobby]_allVars

(***************************************************************************)
(* Connections lost and restored: the manager starts with the game of Ann  *)
(* (s1), Bob (s2) and Cy (s3) in room AAAAAA just started; the three lose  *)
(* their connections, Ann and Bob come back on s4 (and from s4 on their    *)
(* first connection), and the game is played for its first turns.          *)
(***************************************************************************)
InitPause ==
    \E k \in ShuffleKinds :
        /\ rooms = startGameResult(Lobby(3), "AAAAAA", k).rooms
        /\ players = startGameResult(Lobby(3), "AAAAAA", k).players
        /\ heap = startGameResult(Lobby(3), "AAAAAA", k).heap
        /\ now = startGameResult(Lobby(3), "AAAAAA", k).now
        /\ call = NoCall

NextPause ==
    \/ \E s \in PauseDropSockets : HandleDisconnection(s) /\ UNCHANGED call
    \/ \E pr \in PauseReconnectPairs : HandleReconnection(pr[1], pr[2]) /\ UNCHANGED call
    \/ \E s \in GameSockets, i \in CardIndexChoices, c \in ColorChoices :
          TurnBelow("AAAAAA", MaxPauseTurn) /\ PlayCard("AAAAAA", s, i, c) /\ UNCHANGED call
    \/ \E s \in GameSockets, k \in ShuffleKinds :
          TurnBelow("AAAAAA", MaxPauseTurn) /\ DrawCard("AAAAAA", s, k) /\ UNCHANGED call
    \/ \E s \in LeaveSockets : LeaveRoom("AAAAAA", s) /\ UNCHANGED call

SpecPause == InitPause /\ [][NextPause]_allVars

(***************************************************************************)
(* The late game of one room: the manager starts in the state it is in     *)
(* after Ann (s1) and Bob (s2) have started a game in room AAAAAA and have *)
(* called drawCard in turn DrawnAtStart times, which leaves a draw pile of *)
(* a few cards; plays, draws (with the reshuffles and the exhaustion of    *)
(* the piles they run into) and leaveRoom follow.                          *)
(***************************************************************************)
\* the connection of the player whose turn it is in room roomId of manager m
currentSocket(m, roomId) ==
    m.heap[m.rooms[roomId].players[m.rooms[roomId].currentPlayerIndex + 1]].socketId

\* manager m after n drawCard calls, each by the player whose turn it is,
\* for as long as the draw pile has a card
RECURSIVE drawInTurn(_, _, _)
drawInTurn(m, roomId, n) ==
    IF n = 0 \/ Len(m.rooms[roomId].cards) = 0 THEN m
    ELSE drawInTurn(drawCardResult(m, roomId, currentSocket(m, roomId), "identity"),
                    roomId, n - 1)

LateGame == drawInTurn(startGameResult(Lobby(2), "AAAAAA", "identity"), "AAAAAA",
                       DrawnAtStart)

InitDraw ==
    /\ rooms = LateGame.rooms
    /\ players = LateGame.players
    /\ heap = LateGame.heap
    /\ now = LateGame.now
    /\ call = NoCall

NextDraw ==
    \/ \E s \in LobbySockets, i \in CardIndexChoices, c \in ColorChoices :
          TurnBelow("AAAAAA", DrawnAtStart + 1 + MaxDrawTurn) /\ PlayCard("AAAAAA", s, i, c)
          /\ UNCHANGED call
    \/ \E s \in LobbySockets, k \in ShuffleKinds :
          TurnBelow("AAAAAA", DrawnAtStart + 1 + MaxDrawTurn) /\ DrawCard("AAAAAA", s, k)
          /\ UNCHANGED call
    \/ \E s \in LeaveSockets : LeaveRoom("AAAAAA", s) /\ UNCHANGED call

SpecDraw == InitDraw /\ [][NextDraw]_allVars

(***************************************************************************)
(* The sweep: the manager starts with room AAAAAA of Ann (s1) and Bob (s2) *)
(* waiting, or just started, or ended by Ann playing her hand out; the     *)
(* clock advances, the interval timer set by the constructor runs          *)
(* cleanupInactiveRooms, Cy (s3) creates room BBBBBB, and the operations   *)
(* of the players of room AAAAAA go on.                                    *)
(***************************************************************************)
\* manager m after a playCard that passes its checks
playCardResult(m, roomId, playerSocketId, cardIndex, chosenColor) ==
    LET played == handlePlayCard(m.rooms[roomId], m.heap, m.players[playerSocketId],
                                 cardIndex, chosenColor)
        winner == checkWinCondition(played.room.players, played.heap)
    IN  [m EXCEPT !.rooms = [m.rooms EXCEPT ![roomId] =
                               IF winner # Null
                               THEN [played.room EXCEPT !.lastActivity = m.now,
                                                        !.phase = "ended",
                                                        !.winner = winner]
                               ELSE [played.room EXCEPT !.lastActivity = m.now]],
                  !.heap = played.heap]

\* manager m after n playCard calls, each of the first card of the hand of the
\* player whose turn it is
RECURSIVE playInTurn(_, _, _)
playInTurn(m, roomId, n) ==
    IF n = 0 \/ m.rooms[roomId].phase # "playing" THEN m
    ELSE playInTurn(playCardResult(m, roomId, currentSocket(m, roomId), 0, CARD_COLORS[1]),
                    roomId, n - 1)

\* the stacked deal gives Ann skip and reverse cards that follow one another:
\* she plays her hand out without Bob having a turn
EndedGame == playInTurn(startGameResult(Lobby(2), "AAAAAA", "stacked"), "AAAAAA",
                        CARDS_PER_PLAYER)

SweepStarts ==
    {Lobby(2), startGameResult(Lobby(2), "AAAAAA", "stacked"), EndedGame}

InitSweep ==
    \E m \in SweepStarts :
        /\ rooms = m.rooms
        /\ players = m.players
        /\ heap = m.heap
        /\ now = m.now
        /\ call = NoCall

NextSweep ==
    \/ Tick /\ UNCHANGED call
    \/ CleanupInactiveRooms /\ UNCHANGED call
    \/ CreateRoom("s3", NoSettings, "BBBBBB", "identity") /\ UNCHANGED call
    \/ \E k \in ShuffleKinds : StartGame("AAAAAA", "s1", k) /\ UNCHANGED call
    \/ \E s \in LobbySockets, i \in CardIndexChoices, c \in ColorChoices :
          TurnBelow("AAAAAA", MaxSweepTurn) /\ PlayCard("AAAAAA", s, i, c) /\ UNCHANGED call
    \/ \E s \in LobbySockets, k \in ShuffleKinds :
          TurnBelow("AAAAAA", MaxSweepTurn) /\ DrawCard("AAAAAA", s, k) /\ UNCHANGED call
    \/ \E r \in RoomIds, s \in LobbySockets : LeaveRoom(r, s) /\ UNCHANGED call
    \/ HandleDisconnection("s2") /\ UNCHANGED call
    \/ HandleReconnection("s2", "s4") /\ UNCHANGED call

SpecSweep == InitSweep /\ [][NextSweep]_allVars

\* setInterval runs cleanupInactiveRooms every minute for as long as the
\* process lives, and the clock Date.now() reads goes on
SpecSweepFair == SpecSweep /\ WF_vars(Tick) /\ WF_vars(CleanupInactiveRooms)

(***************************************************************************)
(* The playability check as a function: GameRules.canPlayCard and          *)
(* Card.canPlayOn are called, in either order, on a card, a top card and a *)
(* current color drawn from PlayCards and PlayColors; the manager is not   *)
(* involved and stays as constructed.                                      *)
(***************************************************************************)
\* one card of each color and value of createDeck
PlayCards == {c \in 1..DeckSize : \A d \in 1..(c - 1) : CardOf(d) # CardOf(c)}

\* the values gameState.currentColor takes: a color of CARD_COLORS, the
\* 'black' of a wild first card, or null
PlayColors == Range(CARD_COLORS) \cup {"black", "null"}

InitPlayable ==
    /\ rooms = NewManager.rooms
    /\ players = NewManager.players
    /\ heap = NewManager.heap
    /\ now = NewManager.now
    /\ \E c \in PlayCards, t \in PlayCards, k \in PlayColors :
          call = [NoCall EXCEPT !.cardToPlay = c, !.topCard = t, !.currentColor = k]

\* gameRules.canPlayCard(cardToPlay, topCard, currentColor) returns
CallCanPlayCard ==
    /\ ~call.rulesReturned
    /\ call' = [call EXCEPT !.rulesReturned = TRUE,
                            !.rulesResult = canPlayCard(call.cardToPlay, call.topCard,
                                                        call.currentColor)]
    /\ UNCHANGED vars

\* cardToPlay.canPlayOn(topCard, currentColor) returns
CallCanPlayOn ==
    /\ ~call.cardReturned
    /\ call' = [call EXCEPT !.cardReturned = TRUE,
                            !.cardResult = canPlayOn(call.cardToPlay, call.topCard,
                                                     call.currentColor)]
    /\ UNCHANGED vars

NextPlayable ==
    \/ CallCanPlayCard
    \/ CallCanPlayOn

SpecPlayable == InitPlayable /\ [][NextPlayable]_allVars

(***************************************************************************)
(* Functions of the rules by themselves: validateWildDraw4Challenge on a   *)
(* hand, a prior top card and a prior color; the next-player index         *)
(* (getNextPlayerIndex, or calculateNextPlayer without a skip) applied in  *)
(* a direction and then back; and the construction of a Deck, with each    *)
(* shuffle of StartShuffleKinds.  The manager stays as constructed.        *)
(***************************************************************************)
\* red 0, red 1, green 0, green 1, wild, wild-draw4
ChallengeCards == {1, 2, 26, 27, 101, 102}

ChallengeHands ==
    UNION {[1..n -> ChallengeCards] : n \in 0..MaxChallengeHand}

PlayerCounts == MIN_PLAYERS..MAX_PLAYERS

NextPlayerFunctions == {"getNextPlayerIndex", "calculateNextPlayer"}

ChallengeCalls ==
    {[fn |-> "validateWildDraw4Challenge", playerHand |-> h, topCard |-> t,
      currentColor |-> k, returned |-> FALSE, result |-> FALSE] :
        h \in ChallengeHands, t \in ChallengeCards, k \in PlayColors}

NextPlayerCalls ==
    {[fn |-> f, currentIndex |-> nd[2], direction |-> d, playerCount |-> nd[1],
      returned |-> 0, next |-> -1, back |-> -1] :
        f \in NextPlayerFunctions,
        nd \in {x \in PlayerCounts \X (0..(MAX_PLAYERS - 1)) : x[2] < x[1]},
        d \in {1, -1}}

NewDeckCalls ==
    {[fn |-> "Deck", roomId |-> r, kind |-> kind, returned |-> FALSE,
      cards |-> <<>>, discardPile |-> <<>>] : r \in RoomIds, kind \in StartShuffleKinds}

InitRules ==
    /\ rooms = NewManager.rooms
    /\ players = NewManager.players
    /\ heap = NewManager.heap
    /\ now = NewManager.now
    /\ call \in ChallengeCalls \cup NextPlayerCalls \cup NewDeckCalls

\* the room createRoom makes for id roomId, whose deck is a new Deck()
\* shuffled as kind says
roomCreated(roomId, kind) ==
    createRoomResult(NewManager, "s1", NoSettings, roomId, kind).rooms[roomId]

\* new Deck() returns: the two piles of the deck made
CallNewDeck ==
    /\ call.fn = "Deck"
    /\ ~call.returned
    /\ call' = [call EXCEPT !.returned = TRUE,
                            !.cards = roomCreated(call.roomId, call.kind).cards,
                            !.discardPile =
                                roomCreated(call.roomId, call.kind).discardPile]
    /\ UNCHANGED vars

\* gameRules.validateWildDraw4Challenge(playerHand, topCard, currentColor) returns
CallValidateWildDraw4Challenge ==
    /\ call.fn = "validateWildDraw4Challenge"
    /\ ~call.returned
    /\ call' = [call EXCEPT !.returned = TRUE,
                            !.result = validateWildDraw4Challenge(call.playerHand,
                                                                  call.topCard,
                                                                  call.currentColor)]
    /\ UNCHANGED vars

\* the function call.fn names, applied to a seat, a direction and a player count
nextPlayerIndex(fn, currentIndex, direction, playerCount) ==
    IF fn = "calculateNextPlayer"
    THEN calculateNextPlayer(currentIndex, direction, playerCount, FALSE)
    ELSE getNextPlayerIndex(currentIndex, direction, playerCount)

\* the call in the direction given returns
CallNextPlayer ==
    /\ call.fn \in NextPlayerFunctions
    /\ call.returned = 0
    /\ call' = [call EXCEPT !.returned = 1,
                            !.next = nextPlayerIndex(call.fn, call.currentIndex,
                                                     call.direction, call.playerCount)]
    /\ UNCHANGED vars

\* the call from the index returned, in the opposite direction, returns
CallNextPlayerBack ==
    /\ call.fn \in NextPlayerFunctions
    /\ call.returned = 1
    /\ call' = [call EXCEPT !.returned = 2,
                            !.back = nextPlayerIndex(call.fn, call.next,
                                                     -call.direction, call.playerCount)]
    /\ UNCHANGED vars

NextRules ==
    \/ CallValidateWildDraw4Challenge
    \/ CallNewDeck
    \/ CallNextPlayer
    \/ CallNextPlayerBack

SpecRules == InitRules /\ [][NextRules]_allVars

(***************************************************************************)
(* Vocabulary of the properties.                                           *)
(***************************************************************************)
Started(r) == Live(r) /\ rooms[r].phase # "waiting"

Phase(r) == rooms[r].phase

\* the seat (0-based) in room r of the player connection s routes to; -1 when
\* that player is not seated in r
SeatOf(r, s) == findIndex(rooms[r].players, players[s])

\* connection s routes to a player seated in room r
Seated(r, s) == players[s] # Null /\ SeatOf(r, s) # -1

\* the card at cardIndex of the hand of the player of connection s
CardAt(s, cardIndex) == heap[players[s]].hand[cardIndex + 1]

RECURSIVE handSizes(_, _)
handSizes(playerSeq, hp) ==
    IF playerSeq = <<>> THEN 0
    ELSE Len(hp[Head(playerSeq)].hand) + handSizes(Tail(playerSeq), hp)

\* this step adds one card to the discard pile of the playing room r: only a
\* playCard that succeeds does so
CardPlayed(r) ==
    /\ Live(r) /\ rooms'[r] # NoRoom
    /\ Phase(r) = "playing"
    /\ Len(rooms'[r].discardPile) = Len(rooms[r].discardPile) + 1

\* this step is the playCard(r, s, i, c) that succeeds
PlaySucceeds(r, s, i, c) == playCardError(r, s, i, c) = OK /\ PlayCard(r, s, i, c)

(***************************************************************************)
(* C1.  For every room whose game has been started, after any sequence of  *)
(* startGame, playCard, drawCard, callUno, leaveRoom, handleDisconnection  *)
(* and handleReconnection calls, the draw pile, the discard pile and the   *)
(* hands of the players currently in the room hold 108 cards together.     *)
(* leaveRoom removes a player from room.players with the hand the player   *)
(* holds, so the property fails.                                           *)
(***************************************************************************)
C1_CardsConserved ==
    \A r \in RoomIds :
        Started(r) =>
            Len(rooms[r].cards) + Len(rooms[r].discardPile)
              + handSizes(rooms[r].players, heap) = 108

(***************************************************************************)
(* C2.  In a room in phase playing, playCard and drawCard succeed only for *)
(* the player seated at currentPlayerIndex: the call of any other player   *)
(* fails with the not-your-turn error of the operation, and no state that  *)
(* differs from the current one can follow it.                             *)
(***************************************************************************)
C2_OnlyCurrentPlayerActs ==
    \A r \in RoomIds, s \in Sockets :
        (Live(r) /\ Phase(r) = "playing" /\ players[s] # Null
           /\ SeatOf(r, s) # rooms[r].currentPlayerIndex)
        => /\ \A i \in CardIndexChoices, c \in ColorChoices :
                /\ playCardError(r, s, i, c) = "Not your turn"
                /\ ~ENABLED <<PlayCard(r, s, i, c)>>_vars
           /\ drawCardError(r, s) = NOT_YOUR_TURN
           /\ \A k \in ShuffleKinds : ~ENABLED <<DrawCard(r, s, k)>>_vars

\* a game under way in which a player who is not the current one holds, as
\* first card, a card that could be played on the top card
C2_Witness ==
    \E s \in Sockets :
        /\ Live("AAAAAA") /\ Phase("AAAAAA") = "playing"
        /\ rooms["AAAAAA"].turnNumber > 1
        /\ Seated("AAAAAA", s)
        /\ SeatOf("AAAAAA", s) # rooms["AAAAAA"].currentPlayerIndex
        /\ Len(heap[players[s]].hand) > 0
        /\ canPlayCard(CardAt(s, 0), rooms["AAAAAA"].topCard,
                       rooms["AAAAAA"].currentColor)

(***************************************************************************)
(* C3.  playCard, drawCard and callUno succeed only in phase playing: in   *)
(* phase waiting, paused or ended each of them fails (with                 *)
(* GAME_NOT_STARTED) and no state that differs from the current one can    *)
(* follow the call.                                                        *)
(***************************************************************************)
C3_OnlyPlayingAccepts ==
    \A r \in RoomIds, s \in Sockets :
        (Live(r) /\ Phase(r) \in {"waiting", "paused", "ended"})
        => /\ \A i \in CardIndexChoices, c \in ColorChoices :
                /\ playCardError(r, s, i, c) = GAME_NOT_STARTED
                /\ ~ENABLED <<PlayCard(r, s, i, c)>>_vars
           /\ drawCardError(r, s) = GAME_NOT_STARTED
           /\ \A k \in ShuffleKinds : ~ENABLED <<DrawCard(r, s, k)>>_vars
           /\ callUnoError(r, s) = GAME_NOT_STARTED
           /\ ~ENABLED <<CallUno(r, s)>>_vars

\* a paused game in which the current player holds, as first card, a card
\* that could be played on the top card
C3_Witness ==
    \E s \in Sockets :
        /\ Live("AAAAAA") /\ Phase("AAAAAA") = "paused"
        /\ rooms["AAAAAA"].turnNumber > 1
        /\ Seated("AAAAAA", s)
        /\ SeatOf("AAAAAA", s) = rooms["AAAAAA"].currentPlayerIndex
        /\ Len(heap[players[s]].hand) > 0
        /\ canPlayCard(CardAt(s, 0), rooms["AAAAAA"].topCard,
                       rooms["AAAAAA"].currentColor)

\* a playCard that succeeds and takes the last card of the player's hand
\* ends the game in the same step, with that player as winner
C4_WinStep ==
    \A r \in RoomIds :
        CardPlayed(r) =>
            \A s \in Sockets, i \in CardIndexChoices, c \in ColorChoices :
                (PlaySucceeds(r, s, i, c) /\ Len(heap[players[s]].hand) = 1)
                => /\ rooms'[r].phase = "ended"
                   /\ rooms'[r].winner = players[s]

\* an ended room stays ended, with its winner, for as long as it exists
C4_EndedStays ==
    \A r \in RoomIds :
        (Live(r) /\ Phase(r) = "ended" /\ rooms'[r] # NoRoom)
        => /\ rooms'[r].phase = "ended"
           /\ rooms'[r].winner = rooms[r].winner

\* in an ended room every playCard and drawCard fails with GAME_NOT_STARTED
C4_EndedRejects ==
    \A r \in RoomIds, s \in Sockets :
        (Live(r) /\ Phase(r) = "ended")
        => /\ \A i \in CardIndexChoices, c \in ColorChoices :
                playCardError(r, s, i, c) = GAME_NOT_STARTED
           /\ drawCardError(r, s) = GAME_NOT_STARTED

(***************************************************************************)
(* C4.  A playCard that succeeds and takes the last card of the hand of    *)
(* the player who plays sets, in the same step, phase to ended and winner  *)
(* to that player; the room then stays ended with that winner for as long  *)
(* as it exists, and in an ended room every playCard and drawCard fails    *)
(* with GAME_NOT_STARTED.                                                  *)
(***************************************************************************)
C4_WinEndsGame ==
    /\ [][C4_WinStep /\ C4_EndedStays]_vars
    /\ []C4_EndedRejects

\* an ended game: the winner holds no card, and a connection still routes to
\* a seated player who holds cards and could call playCard or drawCard
C4_Witness ==
    /\ Live("AAAAAA") /\ Phase("AAAAAA") = "ended"
    /\ rooms["AAAAAA"].winner # Null
    /\ Len(heap[rooms["AAAAAA"].winner].hand) = 0
    /\ \E s \in Sockets : Seated("AAAAAA", s) /\ Len(heap[players[s]].hand) > 0

\* a step that changes the phase of a room is one of the four transitions,
\* taken by the operation that goes with it
C5_PhaseStep ==
    \A r \in RoomIds :
        (Live(r) /\ rooms'[r] # NoRoom /\ rooms'[r].phase # rooms[r].phase)
        => \/ /\ Phase(r) = "waiting" /\ rooms'[r].phase = "playing"
              /\ \E s \in Sockets, k \in ShuffleKinds :
                    startGameError(r, s) = OK /\ StartGame(r, s, k)
           \/ /\ Phase(r) = "playing" /\ rooms'[r].phase = "ended"
              /\ rooms'[r].winner # Null
              /\ \E s \in Sockets, i \in CardIndexChoices, c \in ColorChoices :
                    PlaySucceeds(r, s, i, c)
           \/ /\ Phase(r) = "playing" /\ rooms'[r].phase = "paused"
              /\ \E s \in Sockets : Seated(r, s) /\ HandleDisconnection(s)
           \/ /\ Phase(r) = "paused" /\ rooms'[r].phase = "playing"
              /\ \E old \in Sockets, new \in Sockets :
                    Seated(r, old) /\ HandleReconnection(old, new)

(***************************************************************************)
(* C5.  The phase of a room changes only from waiting to playing by a      *)
(* startGame that succeeds, from playing to ended by a playCard that       *)
(* detects a win, from playing to paused by the disconnection of a player  *)
(* of the room, and from paused to playing by the reconnection of a player *)
(* of the room; in particular nothing leaves ended, returns to waiting, or *)
(* goes from waiting or paused to ended.                                   *)
(***************************************************************************)
C5_PhaseTransitions == [][C5_PhaseStep]_vars

\* an ended game one of whose players has been disconnected
C5_Witness ==
    /\ Live("AAAAAA") /\ Phase("AAAAAA") = "ended"
    /\ \E j \in 1..Len(rooms["AAAAAA"].players) :
          heap[rooms["AAAAAA"].players[j]].status = "disconnected"

\* this step is a call, by connection s, of an operation addressed to room a
AddressedTo(a, s) ==
    \/ JoinRoom(a, s)
    \/ \E k \in ShuffleKinds : StartGame(a, s, k)
    \/ \E i \in CardIndexChoices, c \in ColorChoices : PlayCard(a, s, i, c)
    \/ \E k \in ShuffleKinds : DrawCard(a, s, k)
    \/ CallUno(a, s)
    \/ LeaveRoom(a, s)

\* the cards of the deck of room a
DeckCards(a) == (CardBase(a) + 1)..(CardBase(a) + DeckSize)

\* this step leaves room b, its players and their routing entries alone, and
\* puts no card of the deck of room a in a hand of b
FrameOf(a, b) ==
    /\ rooms'[b] = rooms[b]
    /\ \A j \in 1..Len(rooms[b].players) :
          /\ heap'[rooms[b].players[j]] # NoPlayer
          /\ heap'[rooms[b].players[j]].hand = heap[rooms[b].players[j]].hand
          /\ heap'[rooms[b].players[j]].unoCalled = heap[rooms[b].players[j]].unoCalled
          /\ Range(heap'[rooms[b].players[j]].hand) \cap DeckCards(a) = {}
    /\ \A s \in Sockets :
          (players[s] # Null /\ players[s] \in Range(rooms[b].players))
          => players'[s] = players[s]

C6_OtherRoomStep ==
    \A a \in RoomIds, b \in RoomIds, s \in Sockets :
        (a # b /\ Live(b) /\ AddressedTo(a, s)) => FrameOf(a, b)

(***************************************************************************)
(* C6.  An operation addressed to room A (joinRoom, startGame, playCard,   *)
(* drawCard, callUno, leaveRoom), whichever connection issues it, changes  *)
(* nothing of another room B: its player list, its players' hands and      *)
(* unoCalled flags, its piles and gameState and the routing entries of its *)
(* players stay as they were, and no card of A's deck is in a hand of B.   *)
(* leaveRoom(A, s) looks the player up by connection only and deletes the  *)
(* routing entry of s even when that player sits in B, so this fails.      *)
(***************************************************************************)
C6_RoomsIsolated == [][C6_OtherRoomStep]_vars

\* a call that returns a failure is a step that changes nothing
C7_FailureStep ==
    /\ \A r \in RoomIds, s \in Sockets :
          /\ (joinRoomError(r, s) # OK /\ JoinRoom(r, s)) => UNCHANGED vars
          /\ (leaveRoomError(r, s) # OK /\ LeaveRoom(r, s)) => UNCHANGED vars
          /\ (callUnoError(r, s) # OK /\ CallUno(r, s)) => UNCHANGED vars
          /\ \A k \in ShuffleKinds :
                /\ (startGameError(r, s) # OK /\ StartGame(r, s, k)) => UNCHANGED vars
                /\ (drawCardError(r, s) # OK /\ DrawCard(r, s, k)) => UNCHANGED vars
          /\ \A i \in CardIndexChoices, c \in ColorChoices :
                (playCardError(r, s, i, c) # OK /\ PlayCard(r, s, i, c))
                => UNCHANGED vars
    /\ \A old \in Sockets, new \in Sockets :
          (handleReconnectionError(old, new) # OK /\ HandleReconnection(old, new))
          => UNCHANGED vars

(***************************************************************************)
(* C7.  Every operation of the manager (joinRoom, startGame, playCard,     *)
(* drawCard, callUno, leaveRoom, handleReconnection; createRoom has no     *)
(* failure return other than from an exception) that returns a failure     *)
(* leaves every room, every player and the routing table as they were.     *)
(* handleReconnection rebinds the player and the routing table before it   *)
(* looks for the room, and returns 'Room not found' after that, so this    *)
(* fails.                                                                  *)
(***************************************************************************)
C7_FailureAtomic == [][C7_FailureStep]_vars

C8_WildStep ==
    \A r \in RoomIds :
        CardPlayed(r) =>
            \A s \in Sockets, i \in CardIndexChoices, c \in ColorChoices :
                (PlaySucceeds(r, s, i, c) /\ isWild(CardAt(s, i))
                   /\ c \in Range(CARD_COLORS))
                => rooms'[r].currentColor = c

(***************************************************************************)
(* C8.  After a playCard that succeeds of a wild or wild-draw4 card with   *)
(* chosenColor c, one of red, green, blue, yellow, the currentColor of the *)
(* room is c.  handlePlayCard drops chosenColor and executeCardAction      *)
(* reads gameState.chosenColor, which nothing sets, so currentColor        *)
(* becomes red whatever c is, and this fails.                              *)
(***************************************************************************)
C8_WildSetsChosenColor == [][C8_WildStep]_vars

\* the number of cards a draw card makes the next player draw
DrawCount(card) == IF valueOf(card) = "draw2" THEN 2 ELSE 4

\* the player of room r seated next, in the direction of play, after the
\* player of connection s
NextPlayerAfter(r, s) ==
    rooms[r].players[getNextPlayerIndex(SeatOf(r, s), rooms[r].direction,
                                        Len(rooms[r].players)) + 1]

C9_DrawStep ==
    \A r \in RoomIds :
        CardPlayed(r) =>
            \A s \in Sockets, i \in CardIndexChoices, c \in ColorChoices :
                (PlaySucceeds(r, s, i, c)
                   /\ valueOf(CardAt(s, i)) \in {"draw2", "wild-draw4"})
                => /\ heap'[NextPlayerAfter(r, s)] # NoPlayer
                   /\ Len(heap'[NextPlayerAfter(r, s)].hand)
                        = Len(heap[NextPlayerAfter(r, s)].hand) + DrawCount(CardAt(s, i))
                   /\ Len(rooms'[r].cards)
                        = Len(rooms[r].cards) - DrawCount(CardAt(s, i))
                   /\ rooms'[r].currentPlayerIndex
                        = (SeatOf(r, s) + 2 * rooms[r].direction) % Len(rooms[r].players)

(***************************************************************************)
(* C9.  After a playCard that succeeds of a draw2 (of a wild-draw4) card,  *)
(* the next player in the direction of play holds 2 (4) cards more, taken  *)
(* from the draw pile, and is skipped: currentPlayerIndex is the seat two  *)
(* steps from the player who played.  playCard draws nothing for the next  *)
(* player and advances by one seat, so this fails.                         *)
(***************************************************************************)
C9_DrawCardsPenalty == [][C9_DrawStep]_vars

C10_SkipStep ==
    \A r \in RoomIds :
        CardPlayed(r) =>
            \A s \in Sockets, i \in CardIndexChoices, c \in ColorChoices :
                (PlaySucceeds(r, s, i, c) /\ valueOf(CardAt(s, i)) = "skip")
                => /\ rooms'[r].currentPlayerIndex
                        = (SeatOf(r, s) + 2 * rooms[r].direction) % Len(rooms[r].players)
                   /\ rooms'[r].direction = rooms[r].direction

(***************************************************************************)
(* C10.  After a playCard that succeeds of a skip card by the player at    *)
(* seat i, in a room of n players with direction d, currentPlayerIndex is  *)
(* (i + 2d) mod n and direction is unchanged.                              *)
(***************************************************************************)
C10_SkipAdvancesTwice == [][C10_SkipStep]_vars

\* a game of three players running against the seating order, in which a
\* skip card has just been played
C10_Witness ==
    /\ Live("AAAAAA") /\ Phase("AAAAAA") = "playing"
    /\ Len(rooms["AAAAAA"].players) = 3
    /\ rooms["AAAAAA"].direction = -1
    /\ Len(rooms["AAAAAA"].discardPile) >= 3
    /\ valueOf(rooms["AAAAAA"].topCard) = "skip"

C11_ReverseStep ==
    \A r \in RoomIds :
        CardPlayed(r) =>
            \A s \in Sockets, i \in CardIndexChoices, c \in ColorChoices :
                (PlaySucceeds(r, s, i, c) /\ valueOf(CardAt(s, i)) = "reverse")
                => /\ rooms'[r].direction = -rooms[r].direction
                   /\ Len(rooms[r].players) > 2
                        => rooms'[r].currentPlayerIndex
                             = (SeatOf(r, s) + rooms'[r].direction) % Len(rooms[r].players)
                   /\ Len(rooms[r].players) = 2
                        => rooms'[r].currentPlayerIndex
                             = calculateNextPlayer(SeatOf(r, s), rooms[r].direction,
                                                   Len(rooms[r].players), TRUE)

(***************************************************************************)
(* C11.  A playCard that succeeds of a reverse card negates the direction  *)
(* of the room; with more than 2 players currentPlayerIndex becomes the    *)
(* seat one step from the player who played, in the new direction, and     *)
(* with exactly 2 players it becomes the seat a skip card played from the  *)
(* same state would give (two steps in the old direction).                 *)
(***************************************************************************)
C11_ReverseFlipsDirection == [][C11_ReverseStep]_vars

\* a game of two players in which a reverse card has just been played
C11_Witness ==
    /\ Live("AAAAAA") /\ Phase("AAAAAA") = "playing"
    /\ Len(rooms["AAAAAA"].players) = 2
    /\ rooms["AAAAAA"].direction = -1
    /\ Len(rooms["AAAAAA"].discardPile) >= 2
    /\ valueOf(rooms["AAAAAA"].topCard) = "reverse"

\* the values of the number cards
NumberValues == {NumberValue(n) : n \in 0..9}

C12_NumberStep ==
    \A r \in RoomIds :
        CardPlayed(r) =>
            \A s \in Sockets, i \in CardIndexChoices, c \in ColorChoices :
                (PlaySucceeds(r, s, i, c) /\ valueOf(CardAt(s, i)) \in NumberValues)
                => /\ heap'[players[s]] # NoPlayer
                   /\ Len(heap'[players[s]].hand) = Len(heap[players[s]].hand) - 1
                   /\ heap'[players[s]].hand
                        = RemoveAt(heap[players[s]].hand, i + 1)
                   /\ rooms'[r].discardPile = Append(rooms[r].discardPile, CardAt(s, i))
                   /\ rooms'[r].topCard = CardAt(s, i)
                   /\ rooms'[r].currentColor = colorOf(CardAt(s, i))
                   /\ rooms'[r].currentPlayerIndex
                        = (SeatOf(r, s) + rooms[r].direction) % Len(rooms[r].players)
                   /\ rooms'[r].turnNumber = rooms[r].turnNumber + 1

(***************************************************************************)
(* C12.  After a playCard that succeeds of a number card by the player at  *)
(* seat i, the hand of that player is one card shorter (the card at the    *)
(* index given is gone, the others keep their order), the card played is   *)
(* the top of the discard pile and the topCard of the room, currentColor   *)
(* is the color of the card, currentPlayerIndex is (i + direction) mod n   *)
(* and turnNumber is one higher.                                           *)
(***************************************************************************)
C12_NumberCardPlay == [][C12_NumberStep]_vars

\* a game in which a number card has just been played from the second slot
\* of a hand, against the seating order
C12_Witness ==
    /\ Live("AAAAAA") /\ Phase("AAAAAA") = "playing"
    /\ rooms["AAAAAA"].direction = -1
    /\ Len(rooms["AAAAAA"].discardPile) >= 3
    /\ valueOf(rooms["AAAAAA"].topCard) \in NumberValues

\* this step adds a turn to the game of room r without a card being played:
\* only a drawCard that succeeds does so
CardDrawn(r) ==
    /\ Live(r) /\ rooms'[r] # NoRoom
    /\ Phase(r) = "playing"
    /\ rooms'[r].turnNumber = rooms[r].turnNumber + 1
    /\ Len(rooms'[r].discardPile) <= Len(rooms[r].discardPile)

\* this step is the drawCard(r, s) that succeeds, k being the shuffle of the
\* reshuffle when there is one
DrawSucceeds(r, s, k) == drawCardError(r, s) = OK /\ DrawCard(r, s, k)

\* the draw pile of room r as drawCard finds it: reshuffled with k when it
\* was empty and the discard pile held more than one card
PileToDraw(r, k) ==
    IF Len(rooms[r].cards) = 0 /\ Len(rooms[r].discardPile) > 1
    THEN reshuffleFromDiscard(rooms[r], k).cards
    ELSE rooms[r].cards

Last(seq) == seq[Len(seq)]

C13_DrawStep ==
    \A r \in RoomIds :
        CardDrawn(r) =>
            \A s \in Sockets, k \in ShuffleKinds :
                DrawSucceeds(r, s, k)
                => /\ SeatOf(r, s) = rooms[r].currentPlayerIndex
                   /\ heap'[players[s]].hand
                        = Append(heap[players[s]].hand, Last(PileToDraw(r, k)))
                   /\ rooms'[r].cards
                        = SubSeq(PileToDraw(r, k), 1, Len(PileToDraw(r, k)) - 1)
                   /\ \A q \in PlayerIds \ {players[s]} : heap'[q] = heap[q]
                   /\ rooms'[r].direction = rooms[r].direction
                   /\ rooms'[r].currentPlayerIndex
                        = (SeatOf(r, s) + rooms[r].direction) % Len(rooms[r].players)
                   /\ Len(rooms[r].players) > 1
                        => rooms'[r].currentPlayerIndex # SeatOf(r, s)

(***************************************************************************)
(* C13.  A drawCard that succeeds, by the current player, adds exactly one *)
(* card to the hand of that player: the top of the draw pile, taken after  *)
(* the reshuffle when the draw pile was empty and the discard pile held    *)
(* more than one card.  It changes no other hand and moves                 *)
(* currentPlayerIndex one seat on in the direction of play, so that, with  *)
(* more than one player in the room, the turn is no longer the drawer's.   *)
(***************************************************************************)
C13_DrawAddsOneCard == [][C13_DrawStep]_vars

\* a late game in which a draw has just reshuffled the discard pile: the
\* discard pile is down to one card, a wild card that was played
C13_Witness ==
    /\ Live("AAAAAA") /\ Phase("AAAAAA") = "playing"
    /\ Len(rooms["AAAAAA"].players) = 2
    /\ Len(rooms["AAAAAA"].discardPile) = 1
    /\ isWild(rooms["AAAAAA"].topCard)
    /\ rooms["AAAAAA"].turnNumber > DrawnAtStart + 1

(***************************************************************************)
(* C14.  When the current player calls drawCard while the draw pile is     *)
(* empty and the discard pile holds at most one card, the call does not    *)
(* fail: it returns no card, leaves every hand as it was and moves         *)
(* currentPlayerIndex one seat on.  GameManager.drawCard returns the       *)
(* failure 'No cards available to draw' in that state and moves nothing,   *)
(* so this fails.                                                          *)
(***************************************************************************)
C14_EmptySupplyDraw ==
    \A r \in RoomIds, s \in Sockets :
        (Live(r) /\ Phase(r) = "playing" /\ players[s] # Null
           /\ SeatOf(r, s) = rooms[r].currentPlayerIndex
           /\ Len(rooms[r].cards) = 0 /\ Len(rooms[r].discardPile) <= 1)
        => /\ drawCardError(r, s) = OK
           /\ ENABLED (/\ DrawCard(r, s, "identity")
                       /\ heap' = heap
                       /\ rooms'[r].currentPlayerIndex
                            = (SeatOf(r, s) + rooms[r].direction)
                                 % Len(rooms[r].players))

\* this step makes the discard pile of the started room r shorter: only a
\* reshuffle does so
Reshuffled(r) ==
    /\ Started(r) /\ rooms'[r] # NoRoom
    /\ Len(rooms'[r].discardPile) < Len(rooms[r].discardPile)

\* the discard pile of room r without its top card
UnderTop(r) == SubSeq(rooms[r].discardPile, 1, Len(rooms[r].discardPile) - 1)

C15_ReshuffleStep ==
    \A r \in RoomIds :
        Reshuffled(r) =>
            /\ Len(rooms[r].cards) = 0
            /\ Len(rooms[r].discardPile) > 1
            /\ rooms'[r].discardPile = <<Last(rooms[r].discardPile)>>
            /\ rooms'[r].topCard = rooms[r].topCard
            /\ \E s \in Sockets, k \in ShuffleKinds :
                  /\ DrawSucceeds(r, s, k)
                  /\ reshuffleFromDiscard(rooms[r], k).discardPile
                       = <<Last(rooms[r].discardPile)>>
                  /\ Len(reshuffleFromDiscard(rooms[r], k).cards)
                       = Len(rooms[r].discardPile) - 1
                  /\ Range(reshuffleFromDiscard(rooms[r], k).cards) = Range(UnderTop(r))
                  /\ Append(rooms'[r].cards, Last(heap'[players[s]].hand))
                       = reshuffleFromDiscard(rooms[r], k).cards

(***************************************************************************)
(* C15.  During a game a reshuffle takes place only when the draw pile is  *)
(* empty and the discard pile holds more than one card; after it the top   *)
(* discard card is the card it was, the discard pile holds that card only, *)
(* and the draw pile holds the other cards the discard pile held (one      *)
(* fewer than the discard pile had), of which the drawCard that called the *)
(* reshuffle then takes the top one.                                       *)
(***************************************************************************)
C15_ReshuffleOnlyWhenEmpty == [][C15_ReshuffleStep]_vars

\* a late game after a reshuffle: one card on the discard pile and, in the
\* draw pile, a wild card that had been played
C15_Witness ==
    /\ Live("AAAAAA") /\ Phase("AAAAAA") = "playing"
    /\ Len(rooms["AAAAAA"].discardPile) = 1
    /\ \E j \in 1..Len(rooms["AAAAAA"].cards) : isWild(rooms["AAAAAA"].cards[j])

\* this step takes room r from waiting to playing: only a startGame that
\* succeeds does so
GameStarted(r) ==
    /\ Live(r) /\ rooms'[r] # NoRoom
    /\ Phase(r) = "waiting" /\ rooms'[r].phase = "playing"

C16_StartStep ==
    \A r \in RoomIds :
        GameStarted(r) =>
            \A s \in Sockets, k \in StartShuffleKinds :
                (startGameError(r, s) = OK /\ StartGame(r, s, k)
                   /\ Len(rooms[r].players) \in MIN_PLAYERS..MAX_PLAYERS)
                => /\ rooms'[r].players = rooms[r].players
                   /\ \A j \in 1..Len(rooms[r].players) :
                         Len(heap'[rooms[r].players[j]].hand) = 7
                   /\ rooms'[r].discardPile # <<>>
                   /\ Last(rooms'[r].discardPile) = rooms'[r].topCard
                   /\ ~isWild(rooms'[r].topCard)
                   /\ rooms'[r].currentColor = colorOf(rooms'[r].topCard)
                   /\ rooms'[r].direction = 1
                   /\ rooms'[r].currentPlayerIndex = 0
                   /\ rooms'[r].turnNumber = 1
                   /\ rooms'[r].winner = Null

(***************************************************************************)
(* C16.  After a startGame that succeeds in a room of n players, n from 2  *)
(* to 4, the phase is playing, every player of the room holds exactly 7    *)
(* cards, the top card of the discard pile is topCard and is not a wild    *)
(* card, currentColor is the color of topCard, direction is +1,            *)
(* currentPlayerIndex is 0, turnNumber is 1 and there is no winner.        *)
(***************************************************************************)
C16_StartGameDeals == [][C16_StartStep]_vars

\* a game just started in which a wild card was turned up first and put on
\* the discard pile under the starting card
C16_Witness ==
    /\ Live("AAAAAA") /\ Phase("AAAAAA") = "playing"
    /\ rooms["AAAAAA"].turnNumber = 1
    /\ Len(rooms["AAAAAA"].discardPile) > 1
    /\ isWild(rooms["AAAAAA"].discardPile[1])

\* the connection s is the one of the host of room r
IsHostSocket(r, s) == heap[rooms[r].host].socketId = s

(***************************************************************************)
(* C17.  startGame succeeds only when the requester is the host of the     *)
(* room, the room has at least 2 players and the phase is waiting; in any  *)
(* other case it fails, with 'Only the host can start the game',           *)
(* INSUFFICIENT_PLAYERS or GAME_ALREADY_STARTED, and no state that differs *)
(* from the current one can follow the call: a startGame on a playing,     *)
(* paused or ended room deals no hand and replaces no deck.                *)
(***************************************************************************)
C17_StartGameGuards ==
    \A r \in RoomIds, s \in Sockets :
        Live(r) =>
            /\ startGameError(r, s) = OK
                 <=> (/\ IsHostSocket(r, s)
                      /\ Len(rooms[r].players) >= 2
                      /\ Phase(r) = "waiting")
            /\ startGameError(r, s) # OK
                 => /\ startGameError(r, s) \in {"Only the host can start the game",
                                                 INSUFFICIENT_PLAYERS,
                                                 GAME_ALREADY_STARTED}
                    /\ \A k \in StartShuffleKinds : ~ENABLED <<StartGame(r, s, k)>>_vars
            /\ (~IsHostSocket(r, s))
                 => startGameError(r, s) = "Only the host can start the game"
            /\ (IsHostSocket(r, s) /\ Len(rooms[r].players) >= 2
                  /\ Phase(r) \in {"playing", "paused", "ended"})
                 => startGameError(r, s) = GAME_ALREADY_STARTED

\* an ended game of at least two players whose host is still connected on s1
C17_Witness ==
    /\ Live("AAAAAA") /\ Phase("AAAAAA") = "ended"
    /\ Len(rooms["AAAAAA"].players) >= 2
    /\ IsHostSocket("AAAAAA", "s1")
    /\ players["s1"] = rooms["AAAAAA"].host

\* the names of the players of room r, in lower case, in seating order
LowerNames(r) ==
    [j \in 1..Len(rooms[r].players) |-> toLowerCase(heap[rooms[r].players[j]].name)]

\* joinRoom succeeds exactly when the room exists, is not full, is waiting
\* and holds no player of the same name, letter case ignored; a joinRoom
\* that fails changes nothing
C18_JoinChecks ==
    \A r \in RoomIds, s \in Sockets :
        /\ joinRoomError(r, s) = OK
             <=> (/\ Live(r)
                  /\ Len(rooms[r].players) < rooms[r].maxPlayers
                  /\ Phase(r) = "waiting"
                  /\ toLowerCase(NameOf(s)) \notin Range(LowerNames(r)))
        /\ joinRoomError(r, s) # OK => ~ENABLED <<JoinRoom(r, s)>>_vars

\* no two players of a room have the same name, letter case ignored
C18_NamesDistinct ==
    \A r \in RoomIds :
        Live(r) =>
            \A i \in 1..Len(rooms[r].players), j \in 1..Len(rooms[r].players) :
                i # j => LowerNames(r)[i] # LowerNames(r)[j]

\* the player list of a room grows only while the room is waiting
C18_GrowStep ==
    \A r \in RoomIds :
        (Live(r) /\ rooms'[r] # NoRoom
           /\ Len(rooms'[r].players) > Len(rooms[r].players))
        => /\ Phase(r) = "waiting"
           /\ Len(rooms[r].players) < rooms[r].maxPlayers
           /\ \E s \in Sockets : joinRoomError(r, s) = OK /\ JoinRoom(r, s)

(***************************************************************************)
(* C18.  joinRoom succeeds only when the room exists, holds fewer than     *)
(* settings.maxPlayers players, is in phase waiting and no player of the   *)
(* room has the same name, letter case ignored; so in every state no two   *)
(* players of a room have names that are equal when case is ignored, and   *)
(* no player is added to a room whose phase is playing, paused or ended.   *)
(***************************************************************************)
C18_JoinRoomGuards ==
    /\ [](C18_JoinChecks /\ C18_NamesDistinct)
    /\ [][C18_GrowStep]_vars

\* a waiting room with a free seat, Ann in it, that refuses ANN (s4)
C18_Witness ==
    /\ Live("AAAAAA") /\ Phase("AAAAAA") = "waiting"
    /\ Len(rooms["AAAAAA"].players) < rooms["AAAAAA"].maxPlayers
    /\ \E j \in 1..Len(rooms["AAAAAA"].players) :
          heap[rooms["AAAAAA"].players[j]].name = "Ann"
    /\ joinRoomError("AAAAAA", "s4") = "Player name already taken"

(***************************************************************************)
(* C19.  For every room, whatever settings createRoom was called with,     *)
(* settings.maxPlayers is in 2..4 and the room never holds more than 4     *)
(* players.  createRoom copies the settings of the caller over its         *)
(* defaults without a check, so a maxPlayers of 5 is kept, and this fails. *)
(***************************************************************************)
C19_MaxPlayersInRange ==
    \A r \in RoomIds :
        Live(r) => /\ rooms[r].maxPlayers \in MIN_PLAYERS..MAX_PLAYERS
                   /\ Len(rooms[r].players) <= MAX_PLAYERS

\* this step is a createRoom by connection s that was given the id r
CreatedAs(r, s) ==
    /\ rooms'[r] # NoRoom /\ rooms'[r] # rooms[r]
    /\ rooms'[r].phase = "waiting" /\ Len(rooms'[r].players) = 1
    /\ \E st \in SettingsChoices, k \in LobbyShuffleKinds : CreateRoom(s, st, r, k)

C20_CreateStep ==
    \A r \in RoomIds, s \in Sockets :
        CreatedAs(r, s)
        => /\ ~Live(r)
           /\ \A b \in RoomIds \ {r} : rooms'[b] = rooms[b]
           /\ rooms'[r].phase = "waiting"
           /\ rooms'[r].players = <<players'[s]>>
           /\ rooms'[r].host = players'[s]

(***************************************************************************)
(* C20.  createRoom gives the new room an id that no live room is using:   *)
(* creating a room replaces, alters or removes no room that exists, and    *)
(* the new room is in phase waiting with the creator as its only player    *)
(* and as its host.  generateRoomId draws the id at random and createRoom  *)
(* stores the room under it without looking the id up, so a room that      *)
(* holds the id is replaced, and this fails.                               *)
(***************************************************************************)
C20_CreateRoomFreshId == [][C20_CreateStep]_vars

\* a live room has a player, its host sits in it, and the host is the one
\* player of the room with isHost set
C21_HostInvariant ==
    \A r \in RoomIds :
        Live(r) =>
            /\ Len(rooms[r].players) >= 1
            /\ rooms[r].host \in Range(rooms[r].players)
            /\ \A j \in 1..Len(rooms[r].players) :
                  heap[rooms[r].players[j]].isHost <=> rooms[r].players[j] = rooms[r].host

\* a leaveRoom by a player seated in the room: the last player to leave
\* takes the room with them; when the host leaves, the player then in the
\* first seat is the host
C21_LeaveStep ==
    \A r \in RoomIds, s \in Sockets :
        (leaveRoomError(r, s) = OK /\ Seated(r, s) /\ LeaveRoom(r, s))
        => IF Len(rooms[r].players) = 1 THEN rooms'[r] = NoRoom
           ELSE /\ rooms'[r] # NoRoom
                /\ rooms'[r].players = RemoveAt(rooms[r].players, SeatOf(r, s) + 1)
                /\ rooms'[r].host = IF players[s] = rooms[r].host
                                    THEN rooms'[r].players[1] ELSE rooms[r].host

(***************************************************************************)
(* C21.  In every state each live room has at least one player and exactly *)
(* one player of the room has isHost set, the one room.host refers to;     *)
(* when the host leaves and others remain, the player now in the first     *)
(* seat becomes the host, and when the last player leaves the room is      *)
(* removed from the registry.                                              *)
(***************************************************************************)
C21_OneHostPerRoom == []C21_HostInvariant /\ [][C21_LeaveStep]_vars

\* a room Ann created and left: Bob, who had joined it, is its host and its
\* only player
C21_Witness ==
    \E r \in RoomIds :
        /\ Live(r)
        /\ heap[rooms[r].host].name = "Bob"
        /\ heap[rooms[r].host].isHost
        /\ rooms[r].players = <<rooms[r].host>>

\* the room the player of connection s is seated in
RoomOf(s) == CHOOSE r \in RoomsOf(players[s]) : TRUE

\* connection s routes to a player who is seated in a room
InARoom(s) == players[s] # Null /\ RoomsOf(players[s]) # {}

C22_DisconnectStep ==
    \A s \in Sockets :
        (InARoom(s) /\ HandleDisconnection(s))
        => /\ heap'[players[s]].status = "disconnected"
           /\ heap'[players[s]].hand = heap[players[s]].hand
           /\ rooms'[RoomOf(s)] # NoRoom
           /\ rooms'[RoomOf(s)].players = rooms[RoomOf(s)].players
           /\ rooms'[RoomOf(s)].phase
                = IF Phase(RoomOf(s)) = "playing" THEN "paused" ELSE Phase(RoomOf(s))
           /\ \A q \in PlayerIds \ {players[s]} : heap'[q] = heap[q]
           /\ players' = players

(***************************************************************************)
(* C22.  handleDisconnection for a connection whose player sits in a room  *)
(* marks that player disconnected, keeps the player in the player list of  *)
(* the room, in the same seat and with the same hand, and moves the phase  *)
(* of the room to paused if and only if it was playing: in waiting, paused *)
(* or ended the phase stays as it was.                                     *)
(***************************************************************************)
C22_DisconnectKeepsSeat == [][C22_DisconnectStep]_vars

\* a paused game in which a player who is not in the first seat is
\* disconnected and holds the cards of their hand
C22_Witness ==
    /\ Live("AAAAAA") /\ Phase("AAAAAA") = "paused"
    /\ \E j \in 2..Len(rooms["AAAAAA"].players) :
          /\ heap[rooms["AAAAAA"].players[j]].status = "disconnected"
          /\ Len(heap[rooms["AAAAAA"].players[j]].hand) >= CARDS_PER_PLAYER

\* the game of room r is, after this step, as it was before it: the turn,
\* the direction, the top card, the color, the piles and the hand of every
\* player seated in the room after the step
GameKept(r) ==
    /\ rooms'[r].currentPlayerIndex = rooms[r].currentPlayerIndex
    /\ rooms'[r].direction = rooms[r].direction
    /\ rooms'[r].topCard = rooms[r].topCard
    /\ rooms'[r].currentColor = rooms[r].currentColor
    /\ rooms'[r].cards = rooms[r].cards
    /\ rooms'[r].discardPile = rooms[r].discardPile
    /\ \A j \in 1..Len(rooms'[r].players) :
          heap'[rooms'[r].players[j]].hand = heap[rooms'[r].players[j]].hand

\* a handleReconnection by a player of a paused room resumes the game
C23_ResumeStep ==
    \A old \in Sockets, new \in Sockets :
        (InARoom(old) /\ Phase(RoomOf(old)) = "paused" /\ HandleReconnection(old, new))
        => /\ handleReconnectionError(old, new) = OK
           /\ rooms'[RoomOf(old)] # NoRoom
           /\ rooms'[RoomOf(old)].phase = "playing"
           /\ rooms'[RoomOf(old)].players = rooms[RoomOf(old)].players
           /\ GameKept(RoomOf(old))

\* nothing done to a paused room changes its game
C23_PausedStep ==
    \A r \in RoomIds :
        (Live(r) /\ Phase(r) = "paused" /\ rooms'[r] # NoRoom) => GameKept(r)

(***************************************************************************)
(* C23.  A handleReconnection that succeeds, by any player of a paused     *)
(* room, sets the phase back to playing, also when other players of the    *)
(* room are still disconnected; currentPlayerIndex, direction, topCard,    *)
(* currentColor, the hands and the piles are then what they were when the  *)
(* room was paused: no step taken on a paused room changes them.           *)
(***************************************************************************)
C23_ReconnectResumes == [][C23_ResumeStep /\ C23_PausedStep]_vars

\* a game that was resumed while a player of the room is still disconnected
C23_Witness ==
    /\ Live("AAAAAA") /\ Phase("AAAAAA") = "playing"
    /\ rooms["AAAAAA"].turnNumber > 1
    /\ \E j \in 1..Len(rooms["AAAAAA"].players) :
          heap[rooms["AAAAAA"].players[j]].status = "disconnected"

\* the routing table maps the connection of every seated player to that
\* player, and has no entry for a player who is seated in no live room
C24_RoutingState ==
    /\ \A r \in RoomIds :
          Live(r) =>
              \A j \in 1..Len(rooms[r].players) :
                  players[heap[rooms[r].players[j]].socketId] = rooms[r].players[j]
    /\ \A s \in Sockets : players[s] # Null => RoomsOf(players[s]) # {}

\* after a handleReconnection(old, new) that succeeds, old routes to no
\* player and new routes to the player who reconnected
C24_ReconnectStep ==
    \A old \in Sockets, new \in Sockets :
        (old # new /\ handleReconnectionError(old, new) = OK
           /\ HandleReconnection(old, new))
        => players'[old] = Null /\ players'[new] = players[old]

(***************************************************************************)
(* C24.  After any interleaving of createRoom, joinRoom, leaveRoom,        *)
(* handleDisconnection, handleReconnection and sweep steps, the routing    *)
(* table maps the current connection id of every player seated in a live   *)
(* room to that player and holds no entry for a player who is seated in no *)
(* live room; after a handleReconnection(old, new) that succeeds, old      *)
(* routes to no player and new routes to the player who reconnected.  The  *)
(* sweep deletes rooms and leaves the routing entries of their players,    *)
(* and createRoom and joinRoom overwrite the entry of a connection whose   *)
(* player is seated, so this fails.                                        *)
(***************************************************************************)
C24_RoutingConsistent == []C24_RoutingState /\ [][C24_ReconnectStep]_vars

\* playCard(r, s, i, c) passes every check that does not concern the chosen
\* color: with a valid color in place of c it succeeds
PlayableBut(r, s, i) == playCardError(r, s, i, CARD_COLORS[1]) = OK

\* playCard(r, s, i, c) is one of the two cases of a wrong color choice
NoColorForWild(r, s, i, c) == PlayableBut(r, s, i) /\ isWild(CardAt(s, i)) /\ c = "null"
NotAColor(r, s, i, c) == PlayableBut(r, s, i) /\ c # "null" /\ c \notin Range(CARD_COLORS)

(***************************************************************************)
(* C25.  playCard of a wild or wild-draw4 card with no chosenColor fails   *)
(* with the missing-color error, and playCard with a chosenColor that is   *)
(* not one of red, green, blue, yellow fails with the invalid-color error; *)
(* in both cases the call changes nothing: the card stays in the hand, the *)
(* discard pile is unchanged and the turn does not advance.  The two       *)
(* errors are those of a play that passes every earlier check of playCard  *)
(* and validateMove (room, phase, player, turn, index, playability).       *)
(***************************************************************************)
C25_ColorChoiceChecked ==
    \A s \in GameSockets, i \in CardIndexChoices, c \in ColorChoices :
        /\ NoColorForWild("AAAAAA", s, i, c)
           => /\ playCardError("AAAAAA", s, i, c) = "Must choose a color for wild card"
              /\ ~ENABLED <<PlayCard("AAAAAA", s, i, c)>>_vars
        /\ NotAColor("AAAAAA", s, i, c)
           => /\ playCardError("AAAAAA", s, i, c) = "Invalid color choice"
              /\ ~ENABLED <<PlayCard("AAAAAA", s, i, c)>>_vars

\* the player whose turn it is holds a wild card that would be accepted with
\* a color, and a card that is not wild and would be accepted too
C25_Witness ==
    \E s \in GameSockets, i \in CardIndexChoices, h \in CardIndexChoices :
        /\ NoColorForWild("AAAAAA", s, i, "null")
        /\ NotAColor("AAAAAA", s, i, "purple")
        /\ NotAColor("AAAAAA", s, h, "purple") /\ ~isWild(CardAt(s, h))

\* a callUno by a player who holds more than one card, the draw pile holding
\* the 2 penalty cards, succeeds and moves 2 cards from the draw pile to the
\* hand of that player
C26_Penalty ==
    \A s \in GameSockets :
        (/\ Live("AAAAAA") /\ Phase("AAAAAA") = "playing" /\ players[s] # Null
         /\ Len(heap[players[s]].hand) > 1
         /\ Len(rooms["AAAAAA"].cards) >= UNO_PENALTY_CARDS)
        => /\ callUnoError("AAAAAA", s) = OK
           /\ ENABLED <<CallUno("AAAAAA", s)
                        /\ Len(heap'[players[s]].hand)
                             = Len(heap[players[s]].hand) + UNO_PENALTY_CARDS
                        /\ Len(rooms'["AAAAAA"].cards)
                             = Len(rooms["AAAAAA"].cards) - UNO_PENALTY_CARDS>>_vars

\* a callUno by a player who holds one card and has not called sets the flag
\* of that player and nothing else in the heap; a callUno in another case that
\* is not the penalty changes no hand and no flag; none changes the turn or
\* the direction
C26_CallStep ==
    \A s \in GameSockets :
        (/\ Live("AAAAAA") /\ Phase("AAAAAA") = "playing" /\ players[s] # Null
         /\ Len(heap[players[s]].hand) <= 1
         /\ CallUno("AAAAAA", s))
        => /\ heap' = IF Len(heap[players[s]].hand) = 1 /\ ~heap[players[s]].unoCalled
                      THEN [heap EXCEPT ![players[s]].unoCalled = TRUE]
                      ELSE heap
           /\ rooms'["AAAAAA"].currentPlayerIndex = rooms["AAAAAA"].currentPlayerIndex
           /\ rooms'["AAAAAA"].direction = rooms["AAAAAA"].direction

(***************************************************************************)
(* C26.  During phase playing, callUno by a player holding exactly one     *)
(* card who has not yet called sets that player's unoCalled flag and draws *)
(* nothing; callUno by a player holding more than one card moves 2 cards   *)
(* from the draw pile to that player's hand and reports penalized = true;  *)
(* in every other case it changes no hand and no flag.  In no case does    *)
(* callUno change currentPlayerIndex or direction.  The penalty branch of  *)
(* GameManager.callUno throws before it draws, so the second part fails.   *)
(***************************************************************************)
C26_CallUnoOutcomes == []C26_Penalty /\ [][C26_CallStep]_vars

\* a playCard that succeeds takes one card from the hand of the player who
\* plays, adds none to it, and leaves the hand of every other player as it is
C27_PlayStep ==
    \A r \in RoomIds :
        CardPlayed(r) =>
            \A s \in Sockets, i \in CardIndexChoices, c \in ColorChoices :
                PlaySucceeds(r, s, i, c)
                => /\ heap'[players[s]].hand = RemoveAt(heap[players[s]].hand, i + 1)
                   /\ \A q \in PlayerIds :
                         (q # players[s] /\ heap[q] # NoPlayer) => heap'[q] = heap[q]
                   /\ Len(rooms'[r].cards) = Len(rooms[r].cards)

\* the player whose turn it is, who holds one card, playable, and has not
\* called UNO, can play it, and playing it ends the game with that player as
\* the winner
C27_LastCardWins ==
    \A s \in GameSockets :
        (/\ Live("AAAAAA") /\ Phase("AAAAAA") = "playing" /\ Seated("AAAAAA", s)
         /\ rooms["AAAAAA"].currentPlayerIndex = SeatOf("AAAAAA", s)
         /\ Len(heap[players[s]].hand) = 1 /\ ~heap[players[s]].unoCalled
         /\ canPlayCard(CardAt(s, 0), rooms["AAAAAA"].topCard, rooms["AAAAAA"].currentColor))
        => /\ playCardError("AAAAAA", s, 0, CARD_COLORS[1]) = OK
           /\ ENABLED <<PlayCard("AAAAAA", s, 0, CARD_COLORS[1])>>_vars
           /\ ~ENABLED <<PlayCard("AAAAAA", s, 0, CARD_COLORS[1])
                         /\ ~(/\ rooms'["AAAAAA"].phase = "ended"
                              /\ rooms'["AAAAAA"].winner = players[s]
                              /\ heap'[players[s]].hand = <<>>)>>_vars

C28_SweepStep ==
    CleanupInactiveRooms
    => \A r \in RoomIds :
          IF Live(r) /\ now - rooms[r].lastActivity > 30 * 60 * 1000
          THEN rooms'[r] = NoRoom
          ELSE rooms'[r] = rooms[r]

\* a room whose last activity is more than the threshold ago is removed by
\* the next run of the sweep, in whatever phase it is
C28_SweptInAnyPhase ==
    \A r \in RoomIds :
        (Live(r) /\ now - rooms[r].lastActivity > 30 * 60 * 1000)
        => /\ Phase(r) \in {"waiting", "playing", "paused", "ended"}
           /\ ENABLED <<CleanupInactiveRooms /\ rooms'[r] = NoRoom>>_vars
           /\ ~ENABLED <<CleanupInactiveRooms /\ rooms'[r] # NoRoom>>_vars

\* while no room has the id r, every operation that names r fails with
\* ROOM_NOT_FOUND
C28_GoneIsNotFound ==
    \A r \in RoomIds :
        ~Live(r)
        => \A s \in Sockets :
              /\ joinRoomError(r, s) = ROOM_NOT_FOUND
              /\ startGameError(r, s) = ROOM_NOT_FOUND
              /\ \A i \in CardIndexChoices, c \in ColorChoices :
                    playCardError(r, s, i, c) = ROOM_NOT_FOUND
              /\ drawCardError(r, s) = ROOM_NOT_FOUND
              /\ callUnoError(r, s) = ROOM_NOT_FOUND
              /\ leaveRoomError(r, s) = ROOM_NOT_FOUND

\* the times of the clock after which the clock still advances
EarlierTimes == {k * TickMs : k \in 0..(MaxTicks - 1)}

\* a room whose lastActivity stays at t is destroyed
C28_IdleRoomDestroyed ==
    \A r \in RoomIds, t \in EarlierTimes :
        (Live(r) /\ rooms[r].lastActivity = t)
        ~> (~Live(r) \/ rooms[r].lastActivity # t)

(***************************************************************************)
(* C28.  Each run of the inactivity sweep removes exactly the rooms whose  *)
(* last activity is older than the inactivity threshold, whatever their    *)
(* phase (waiting, playing, paused or ended), and leaves every other room  *)
(* untouched; hence a room on which no operation is performed any more is  *)
(* eventually destroyed, and every later operation naming it fails with    *)
(* ROOM_NOT_FOUND.                                                         *)
(***************************************************************************)
C28_SweepDestroysIdleRooms ==
    /\ [][C28_SweepStep]_vars
    /\ [](C28_SweptInAnyPhase /\ C28_GoneIsNotFound)
    /\ C28_IdleRoomDestroyed

\* room AAAAAA has been swept, its two players still routed, while room
\* BBBBBB, created after the clock advanced, is live
C28_Witness ==
    /\ ~Live("AAAAAA") /\ Live("BBBBBB")
    /\ rooms["BBBBBB"].lastActivity > 0
    /\ players["s1"] # Null /\ players["s1"] # rooms["BBBBBB"].host

\* the playability of card c on top card t with current color k, as stated
Playable(c, t, k) ==
    \/ isWild(c)
    \/ ~isWild(c) /\ ~isWild(t) /\ (colorOf(c) = colorOf(t) \/ valueOf(c) = valueOf(t))
    \/ ~isWild(c) /\ isWild(t) /\ colorOf(c) = k

(***************************************************************************)
(* C30.  For every card c, top card t and current color k: the             *)
(* playability check is true whenever c is wild; for non-wild c and        *)
(* non-wild t it is true exactly when c and t have the same color or the   *)
(* same value; for non-wild c and wild t it is true exactly when c's color *)
(* equals k.  GameRules.canPlayCard and Card.canPlayOn give this same      *)
(* result for all such inputs.                                             *)
(***************************************************************************)
C30_PlayabilityAgrees ==
    /\ call.rulesReturned
       => call.rulesResult = Playable(call.cardToPlay, call.topCard, call.currentColor)
    /\ call.cardReturned
       => call.cardResult = Playable(call.cardToPlay, call.topCard, call.currentColor)
    /\ (call.rulesReturned /\ call.cardReturned) => call.rulesResult = call.cardResult

\* both checks have returned true for a card that is not wild, of a value
\* other than that of the wild top card, whose color is the current color
C30_Witness ==
    /\ call.rulesReturned /\ call.cardReturned
    /\ call.rulesResult /\ call.cardResult
    /\ ~isWild(call.cardToPlay) /\ isWild(call.topCard)
    /\ colorOf(call.cardToPlay) = call.currentColor

\* the hand holds a card of the prior color or of the value of the prior top card
MatchesPrior(playerHand, topCard, currentColor) ==
    \E j \in 1..Len(playerHand) :
        \/ colorOf(playerHand[j]) = currentColor
        \/ valueOf(playerHand[j]) = valueOf(topCard)

HoldsWild(playerHand) == \E j \in 1..Len(playerHand) : isWild(playerHand[j])

ChallengeReturned == call.fn = "validateWildDraw4Challenge" /\ call.returned

(***************************************************************************)
(* C31, as stated.  The Wild-Draw-4 challenge predicate returns true       *)
(* exactly when the hand it is given contains a card whose color equals    *)
(* the prior current color or whose value equals the prior top card's      *)
(* value, and false for every other hand.  A hand that holds a wild card   *)
(* and no such card gets true, so this fails.                              *)
(***************************************************************************)
C31_ChallengeIffMatch ==
    ChallengeReturned
    => call.result = MatchesPrior(call.playerHand, call.topCard, call.currentColor)

(***************************************************************************)
(* C31, amended.  The Wild-Draw-4 challenge predicate returns true exactly *)
(* when the hand it is given contains a wild card, or a card whose color   *)
(* equals the prior current color or whose value equals the prior top      *)
(* card's value, and false for every other hand.                           *)
(***************************************************************************)
C31_ChallengeIffMatchOrWild ==
    ChallengeReturned
    => call.result = (\/ HoldsWild(call.playerHand)
                      \/ MatchesPrior(call.playerHand, call.topCard, call.currentColor))

\* the predicate has returned true for a hand whose only playable card is wild
C31_Witness ==
    /\ ChallengeReturned /\ call.result
    /\ HoldsWild(call.playerHand)
    /\ ~MatchesPrior(call.playerHand, call.topCard, call.currentColor)
    /\ Len(call.playerHand) = 2

NextPlayerReturned(n) == call.fn \in NextPlayerFunctions /\ call.returned >= n

(***************************************************************************)
(* C32.  For every player count n in 2..4, every seat i in 0..n-1 and      *)
(* every direction d in {+1, -1}, the next-player index                    *)
(* j = nextPlayerIndex(i, d, n) lies in 0..n-1 and                         *)
(* nextPlayerIndex(j, -d, n) = i.                                          *)
(***************************************************************************)
C32_NextPlayerRoundTrip ==
    /\ NextPlayerReturned(1) => call.next \in 0..(call.playerCount - 1)
    /\ NextPlayerReturned(2) => call.back = call.currentIndex

\* the round trip of a step against the seating order from seat 0 of 3: it
\* wraps to seat 2 and comes back
C32_Witness ==
    /\ NextPlayerReturned(2)
    /\ call.playerCount = 3 /\ call.currentIndex = 0 /\ call.direction = -1
    /\ call.next = 2 /\ call.back = 0

\* how many cards of pile have the color and the value given
CountOf(pile, color, value) ==
    Cardinality({j \in 1..Len(pile) :
                    colorOf(pile[j]) = color /\ valueOf(pile[j]) = value})

\* how many cards of pile have the color given
CountOfColor(pile, color) ==
    Cardinality({j \in 1..Len(pile) : colorOf(pile[j]) = color})

\* the values a colored card has two of
TwiceValues == (NumberValues \ {"0"}) \cup {"skip", "reverse", "draw2"}

(***************************************************************************)
(* C33.  Every deck built at deck creation holds exactly 108 cards in its  *)
(* draw pile and none in its discard pile: for each of the four colors one *)
(* 0, two each of 1-9 and two each of skip, reverse and draw2 (25 per      *)
(* color, 100 colored cards), plus 4 wild and 4 wild-draw4 cards, all      *)
(* black.                                                                  *)
(***************************************************************************)
C33_NewDeckComposition ==
    (call.fn = "Deck" /\ call.returned)
    => /\ Len(call.cards) = 108
       /\ call.discardPile = <<>>
       /\ \A j \in 1..Len(call.cards), h \in 1..Len(call.cards) :
             j # h => call.cards[j] # call.cards[h]
       /\ \A color \in Range(CARD_COLORS) :
             /\ CountOf(call.cards, color, "0") = 1
             /\ \A v \in TwiceValues : CountOf(call.cards, color, v) = 2
             /\ CountOfColor(call.cards, color) = 25
       /\ CountOf(call.cards, "black", "wild") = 4
       /\ CountOf(call.cards, "black", "wild-draw4") = 4
       /\ CountOfColor(call.cards, "black") = 8

\* a deck has been made whose shuffle moved cards: the wild cards createDeck
\* pushes last are no longer on top
C33_Witness ==
    /\ call.fn = "Deck" /\ call.returned
    /\ Len(call.cards) = 108
    /\ ~isWild(call.cards[Len(call.cards)])
    /\ \E j \in 1..Len(call.cards) : isWild(call.cards[j])

\* the game of room r is under way: started and not ended
UnderWay(r) == Live(r) /\ Phase(r) \in {"playing", "paused"}

(***************************************************************************)
(* C34.  Whenever a room's phase is playing or paused, currentPlayerIndex  *)
(* is a valid seat, 0 <= currentPlayerIndex < number of players in the     *)
(* room, after any sequence of operations including leaveRoom calls made   *)
(* during the game.  leaveRoom removes the seat and leaves                 *)
(* currentPlayerIndex as it is, so this fails.                             *)
(***************************************************************************)
C34_CurrentIndexIsSeat ==
    \A r \in RoomIds :
        UnderWay(r)
        => /\ 0 <= rooms[r].currentPlayerIndex
           /\ rooms[r].currentPlayerIndex < Len(rooms[r].players)

(***************************************************************************)
(* C35.  Whenever a room's phase is playing or paused, the room has at     *)
(* least 2 players.  leaveRoom during a game leaves the last player in a   *)
(* room still playing, so this fails.                                      *)
(***************************************************************************)
C35_TwoPlayersWhileUnderWay ==
    \A r \in RoomIds : UnderWay(r) => Len(rooms[r].players) >= MIN_PLAYERS

\* connection s routes to the player seated at currentPlayerIndex of room r
RoutesToCurrent(r, s) ==
    /\ players[s] # Null
    /\ rooms[r].currentPlayerIndex \in 0..(Len(rooms[r].players) - 1)
    /\ players[s] = rooms[r].players[rooms[r].currentPlayerIndex + 1]

\* a drawCard, or a playCard of a card of the hand, by connection s on room r
\* would succeed
CanMove(r, s) ==
    \/ drawCardError(r, s) = OK
    \/ \E i \in 0..(Len(heap[players[s]].hand) - 1), c \in Range(CARD_COLORS) :
          playCardError(r, s, i, c) = OK

(***************************************************************************)
(* C36.  In every reachable state of a room in phase playing, the game can *)
(* move on: there is a player seated at currentPlayerIndex for whom        *)
(* drawCard, or playCard of at least one card of that player's hand,       *)
(* succeeds.  After a leaveRoom no player may be seated at                 *)
(* currentPlayerIndex, so this fails.                                      *)
(***************************************************************************)
C36_GameCanMoveOn ==
    \A r \in RoomIds :
        (Live(r) /\ Phase(r) = "playing")
        => \E s \in Sockets : RoutesToCurrent(r, s) /\ CanMove(r, s)

(***************************************************************************)
(* C37.  Whenever a room's phase is playing, paused or ended, topCard is   *)
(* the card on top of the room's discard pile, currentColor is one of red, *)
(* green, blue, yellow, and when topCard is not a wild card currentColor   *)
(* equals topCard's color.                                                 *)
(***************************************************************************)
C37_TopCardAndColor ==
    \A r \in RoomIds :
        Started(r)
        => /\ Phase(r) \in {"playing", "paused", "ended"}
           /\ Len(rooms[r].discardPile) > 0
           /\ rooms[r].topCard = Last(rooms[r].discardPile)
           /\ rooms[r].currentColor \in Range(CARD_COLORS)
           /\ ~isWild(rooms[r].topCard) => rooms[r].currentColor = colorOf(rooms[r].topCard)

\* a late game after a reshuffle that left a wild card, played before it, as
\* the one card of the discard pile
C37_Witness ==
    /\ Live("AAAAAA") /\ Phase("AAAAAA") = "playing"
    /\ Len(rooms["AAAAAA"].discardPile) = 1
    /\ Len(rooms["AAAAAA"].cards) > 0
    /\ isWild(rooms["AAAAAA"].topCard)

(***************************************************************************)
(* C38.  Whenever a room's phase is playing or paused, every player of the *)
(* room holds at least one card and winner is unset; whenever the phase is *)
(* ended, winner is a player whose hand is empty.                          *)
(***************************************************************************)
C38_WinnerIffEnded ==
    \A r \in RoomIds :
        /\ UnderWay(r)
           => /\ \A j \in 1..Len(rooms[r].players) :
                    Len(heap[rooms[r].players[j]].hand) >= 1
              /\ rooms[r].winner = Null
        /\ (Live(r) /\ Phase(r) = "ended")
           => /\ rooms[r].winner # Null
              /\ heap[rooms[r].winner] # NoPlayer
              /\ heap[rooms[r].winner].hand = <<>>

\* an ended game of two players: the winner, seated, holds no card and the
\* other player holds the hand dealt
C38_Witness ==
    /\ Live("AAAAAA") /\ Phase("AAAAAA") = "ended"
    /\ Len(rooms["AAAAAA"].players) = 2
    /\ rooms["AAAAAA"].winner = rooms["AAAAAA"].players[1]
    /\ heap[rooms["AAAAAA"].players[1]].hand = <<>>
    /\ Len(heap[rooms["AAAAAA"].players[2]].hand) = CARDS_PER_PLAYER

\* the positions of pile that hold card c
positionsOf(pile, c) == {j \in 1..Len(pile) : pile[j] = c}

\* the (seat, position) pairs at which card c is held in a hand of room r
heldAt(r, c) ==
    UNION {{<<p, j>> : j \in positionsOf(heap[rooms[r].players[p]].hand, c)} :
             p \in 1..Len(rooms[r].players)}

\* in how many places of room r card c is: positions of the draw pile, of
\* the discard pile and of the hands of the players of the room
placesOf(r, c) ==
    Cardinality(positionsOf(rooms[r].cards, c))
      + Cardinality(positionsOf(rooms[r].discardPile, c))
      + Cardinality(heldAt(r, c))

\* the cards of the deck built for room r
deckOf(r) == (CardBase(r) + 1)..(CardBase(r) + DeckSize)

\* no card of the deck of room r is in two places or twice in one place
NoCardTwice(r) == \A c \in deckOf(r) : placesOf(r, c) <= 1

(***************************************************************************)
(* C39.  In every reachable state of a started game, each card of the      *)
(* room's deck is in exactly one place: the draw pile, the discard pile or *)
(* the hand of one player; no card is in two places or twice in one place. *)
(* leaveRoom removes a player with the hand held, so the cards of that     *)
(* hand are in no place of the room afterwards and the property fails.     *)
(***************************************************************************)
C39_EachCardInOnePlace ==
    \A r \in RoomIds :
        Started(r) => \A c \in deckOf(r) : placesOf(r, c) = 1

(***************************************************************************)
(* C40.  In every reachable state of a game, a player whose unoCalled flag *)
(* is set holds at most one card: the flag does not stay set after the     *)
(* player's hand grows back beyond one card through drawCard.  Nothing on  *)
(* the server calls resetUnoCall and addCards leaves the flag alone, so a  *)
(* player who has called UNO and then draws keeps the flag: the property   *)
(* fails.                                                                  *)
(***************************************************************************)
C40_UnoCalledHoldsOneCard ==
    \A r \in RoomIds :
        Started(r)
        => \A j \in 1..Len(rooms[r].players) :
              heap[rooms[r].players[j]].unoCalled
              => Len(heap[rooms[r].players[j]].hand) <= 1

====
